---- MODULE Spec2Model ----
(***************************************************************************)
(* NutriScan: the search-history store (SearchHistoryService), the daily   *)
(* food-log store (FoodLogService), the date helpers, the Gemini gateway   *)
(* with its nutrition context and daily limits, and the screen handlers    *)
(* that analyse a food, save it to the history and add it to the log.      *)
(*                                                                         *)
(* AsyncStorage holds one JSON list per key.  JSON.stringify/JSON.parse    *)
(* is structure preserving on the values the model stores (finite          *)
(* numbers, strings, arrays, records; an optional field that is undefined  *)
(* is dropped and reads back as undefined, here Absent), so a persisted    *)
(* list is held as the sequence of its records.  A key that was never      *)
(* written or was removed reads as the empty list (getItem gives null).    *)
(* Date.now() is taken to be non-decreasing; ids are taken to be fresh     *)
(* (Date.now() in base 36 followed by nine random base-36 digits).         *)
(***************************************************************************)
EXTENDS Integers, Sequences, FiniteSets, TLC

VARIABLES
    hist,       \* value under @NutriScan:SearchHistory
    htask,      \* per task: the SearchHistoryService call in flight
    now,        \* Date.now()
    nextId,     \* source of generateId()
    faults,     \* whether AsyncStorage can fail in this run
    opsLeft,    \* operations that may still be started
    saved,      \* ghost: the ids saveSearch assigned, newest first
    pure,       \* ghost: so far only non-overlapping, failure-free saves
    lastSaved,  \* ghost: the entry the last storage write of a save created
    lastGet,    \* ghost: result of the last successful getSearchHistory call
    getsAgree,  \* ghost: the successful reads since the last write agree
    lastDel,    \* ghost: last completed deleteSearchItem call
    hcall,      \* ghost: how the last SearchHistoryService call ended
    log,        \* value under @NutriScan:FoodLog
    ltask,      \* per task: the FoodLogService call in flight
    limits,     \* GeminiService.CKD_DAILY_LIMITS
    daily,      \* ghost: last result of getDailyFoodLogs and the list it read
    ctx,        \* ghost: last result of getTodayNutritionContext
    lcall,      \* ghost: the last FoodLogService call in which storage failed
    tzOff,      \* the device's time zone: hours east of UTC, standard time
    dstShift,   \* the zone's daylight-saving change in the modelled weeks
    entry,      \* ghost: the date string last computed for a new log entry
    label,      \* ghost: last result of formatDate
    gcall,      \* the gateway operation in flight
    gres,       \* ghost: how the last gateway operation ended for its caller
    sent,       \* ghost: requests sent to the model endpoint
    flow,       \* the screen handler in flight
    screen,     \* the state and the alerts of the screen that ran it
    join,       \* ghost: the last getFullNutritionData call
    held,       \* the object a caller got from getDailyLimits
    made,       \* ghost: the last createEntryFromSearchHistory call
    gone        \* ghost: the ids whose deletion has completed, per store

svars == <<now, nextId, faults, opsLeft>>
hvars == <<hist, htask, saved, pure, lastSaved, lastGet, getsAgree, lastDel,
          hcall>>
lvars == <<log, ltask, limits, daily, ctx, lcall>>
dvars == <<tzOff, dstShift, entry, label>>
gvars == <<gcall, gres, sent>>
fvars == <<flow, screen>>
jvars == <<join, held, made, gone>>
xvars == <<gvars, fvars, jvars>>
vars == <<svars, hvars, lvars, dvars, xvars>>

----------------------------------------------------------------------------
(* Bounds of the model *)

NumTasks == 2
MaxOps == 2
MaxTicks == 1
MaxDaysBack == 9
MaxHours == 23
MaxLogOps == 3
MaxSaves == 4
MaxCreateOps == 2
MaxRefOps == 3
MaxHalfDays == 1
MaxLen == 5
MaxCalls == 1
MaxUserActions == 2

(* Program constants *)

HISTORY_CAP == 50
HoursPerDay == 24

(* The windows of getSearchStats, 7 * 24 * 60 * 60 * 1000 and
   30 * 24 * 60 * 60 * 1000 milliseconds, in seconds: where the history
   store reads the clock, the clock counts seconds *)
OneWeek == 7 * 24 * 60 * 60
OneMonth == 30 * 24 * 60 * 60

Tasks == 1..NumTasks

----------------------------------------------------------------------------
(* Values *)

Absent == [absent |-> TRUE]

VitaminNames == {"vitaminA", "vitaminC", "vitaminD", "vitaminE", "vitaminK",
                 "vitaminB1", "vitaminB2", "vitaminB3", "vitaminB6",
                 "vitaminB12", "folate"}

MineralNames == {"calcium", "iron", "magnesium", "phosphorus", "potassium",
                 "sodium", "zinc", "selenium"}

Macros(p, c, f, fi, s) ==
    [protein |-> p, carbs |-> c, fat |-> f, fiber |-> fi, sugar |-> s]

AppleData ==
    [macros |-> Macros(0, 21, 0, 4, 16),
     vitamins |-> [v \in VitaminNames |-> IF v = "vitaminC" THEN 7 ELSE 1],
     minerals |-> [m \in MineralNames |->
                     IF m = "potassium" THEN 160
                     ELSE IF m = "phosphorus" THEN 17
                     ELSE IF m = "sodium" THEN 2 ELSE 1],
     renalDiet |-> [suitableForKidneyDisease |-> TRUE,
                    overallSafetyFlag |-> "safe",
                    primaryConcerns |-> <<>>,
                    potassiumLevel |-> "low", phosphorusLevel |-> "low",
                    sodiumLevel |-> "low", proteinLevel |-> "low",
                    recommendation |-> <<"ok">>,
                    warnings |-> <<>>,
                    modifications |-> <<"peel">>]]

BananaData ==
    [macros |-> Macros(1, 27, 0, 3, 14),
     vitamins |-> [v \in VitaminNames |-> IF v = "vitaminB6" THEN 4 ELSE 2],
     minerals |-> [m \in MineralNames |->
                     IF m = "potassium" THEN 422
                     ELSE IF m = "phosphorus" THEN 26
                     ELSE IF m = "sodium" THEN 1 ELSE 3],
     renalDiet |-> [suitableForKidneyDisease |-> FALSE,
                    overallSafetyFlag |-> "avoid",
                    primaryConcerns |-> <<"potassium">>,
                    potassiumLevel |-> "high", phosphorusLevel |-> "low",
                    sodiumLevel |-> "low", proteinLevel |-> "low",
                    recommendation |-> <<"limit">>,
                    warnings |-> <<"high potassium">>,
                    modifications |-> <<"half portion">>]]

SummaryOf(data, tips) ==
    [macros |-> data.macros, warnings |-> data.renalDiet.warnings, tips |-> tips]

(* The argument of saveSearch: a SearchHistoryItem without id and timestamp *)
Item(name, weight, data) ==
    [foodName |-> name, weight |-> weight, calories |-> data.macros.carbs * 4,
     nutritionData |-> data,
     summary |-> SummaryOf(data, <<data.renalDiet.modifications[1]>>)]

Items == {Item("Apple", 150, AppleData), Item("Banana", 120, BananaData)}

WithIdAndTimestamp(item, id, ts) ==
    [id |-> id, timestamp |-> ts, foodName |-> item.foodName,
     weight |-> item.weight, calories |-> item.calories,
     nutritionData |-> item.nutritionData, summary |-> item.summary]

(* An entry as an older version of the app persisted it: a summary and no
   nutritionData. *)
LegacyEntry(id, ts) ==
    [id |-> id, timestamp |-> ts, foodName |-> "Oats", weight |-> 40,
     calories |-> 150, nutritionData |-> Absent,
     summary |-> [macros |-> Macros(5, 27, 3, 4, 1),
                  warnings |-> <<"phosphorus">>,
                  tips |-> <<"soak", "rinse">>]]

----------------------------------------------------------------------------
(* SearchHistoryService: pure parts *)

Ids(list) == {list[i].id : i \in 1..Len(list)}

Take(list, n) == SubSeq(list, 1, IF Len(list) < n THEN Len(list) ELSE n)

IsSortedDesc(list) ==
    \A i \in 1..(Len(list) - 1) : list[i].timestamp >= list[i + 1].timestamp

(* tips.join(". ") *)
RECURSIVE Join(_)
Join(tips) ==
    IF Len(tips) = 0 THEN <<>>
    ELSE IF Len(tips) = 1 THEN <<tips[1]>>
    ELSE <<tips[1], ". ">> \o Join(Tail(tips))

(* The placeholder nutritionData of a migrated entry *)
PlaceholderData(summary) ==
    [macros |-> summary.macros,
     vitamins |-> [v \in VitaminNames |-> 0],
     minerals |-> [m \in MineralNames |-> 0],
     renalDiet |-> [suitableForKidneyDisease |-> TRUE,
                    overallSafetyFlag |-> "caution",
                    primaryConcerns |-> <<>>,
                    potassiumLevel |-> "low", phosphorusLevel |-> "low",
                    sodiumLevel |-> "low", proteinLevel |-> "moderate",
                    recommendation |-> <<"Migrated from older data format">>,
                    warnings |-> summary.warnings,
                    modifications |-> Join(summary.tips)]]

(* A migration that takes the vitamins for the macros *)
MigrateItemWrongMacros(item) ==
    IF item.nutritionData = Absent /\ item.summary # Absent
    THEN [item EXCEPT !.nutritionData =
             [PlaceholderData(item.summary) EXCEPT
                 !.macros = Macros(0, 0, 0, 0, 0)]]
    ELSE item

(* if (!item.nutritionData && item.summary) item.nutritionData = {...} *)
MigrateItem(item) ==
    IF item.nutritionData = Absent /\ item.summary # Absent
    THEN [item EXCEPT !.nutritionData = PlaceholderData(item.summary)]
    ELSE item

(* history.sort((a, b) => b.timestamp - a.timestamp): element i goes behind
   the elements with a later timestamp and behind the earlier elements with
   the same timestamp (the sort is stable).  A list already in order is
   returned as it is. *)
SortByTimestampDesc(list) ==
    LET n == Len(list)
        Before(j, i) ==
            \/ list[j].timestamp > list[i].timestamp
            \/ list[j].timestamp = list[i].timestamp /\ j < i
        pos == [i \in 1..n |-> Cardinality({j \in 1..n : Before(j, i)}) + 1]
    IN  IF IsSortedDesc(list) THEN list
        ELSE [p \in 1..n |-> list[CHOOSE i \in 1..n : pos[i] = p]]

(* getSearchHistory on a successful read of the stored list *)
GetSearchHistory(stored) ==
    SortByTimestampDesc([i \in 1..Len(stored) |-> MigrateItem(stored[i])])

(* What a storage call can do: succeed (TRUE) or, in a run with faults,
   reject (FALSE). *)
StorageOutcomes == IF faults THEN BOOLEAN ELSE {TRUE}

(* A write that keeps the stored entries the written list lacks
   (AsyncStorage.mergeItem in place of setItem) *)
SetItemMerging(stored, value) ==
    value \o SelectSeq(stored, LAMBDA e : e.id \notin Ids(value))

(* AsyncStorage.setItem(key, JSON.stringify(list)): the value under the key
   is replaced by the list written, whatever was stored *)
SetItem(stored, value) == value

(* getSearchHistory as the other methods call it: a failed read is caught
   inside it and gives []. *)
ReadHistory(ok) == IF ok THEN GetSearchHistory(hist) ELSE <<>>

(* An off-by-one cap: slice(0, 51) *)
LimitedHistoryOffByOne(newItem, existing) ==
    Take(<<newItem>> \o existing, HISTORY_CAP + 1)

(* The new entry pushed behind the others: [...existingHistory, newItem] *)
LimitedHistoryAppended(newItem, existing) ==
    Take(existing \o <<newItem>>, HISTORY_CAP)

(* [newItem, ...existingHistory].slice(0, 50) *)
LimitedHistory(newItem, existing) == Take(<<newItem>> \o existing, HISTORY_CAP)

(* history.filter((item) => item.id !== id) *)
WithoutId(list, id) == SelectSeq(list, LAMBDA e : e.id # id)

----------------------------------------------------------------------------
(* SearchHistoryService: the calls.  A call runs from one await to the next
   in one step: the step that ends with the read of the stored list also
   builds the list to write and issues the write; the write then lands (or
   is rejected) in a later step. *)

IdleTask == [pc |-> "idle"]
NoGet == [valid |-> FALSE]
NoEntry == [valid |-> FALSE]
OthersIdle(t) == \A u \in Tasks \ {t} : htask[u].pc = "idle"
AllIdle == \A u \in Tasks : htask[u].pc = "idle"
CanStart(t) == htask[t].pc = "idle" /\ opsLeft > 0

(* The record of a call that has ended: whether a storage call of it
   failed, whether no other call ran beside it, whether the stored list is
   what it was when the call read it, whether an alert was raised, and
   whether what it returned is empty (a list) or all zeros (the counts).
   No method of the service lets an error out of its try block. *)
Ended(op, failed, alone, unchanged, alerted, empty) ==
    [valid |-> TRUE, op |-> op, failed |-> failed, alone |-> alone,
     unchanged |-> unchanged, alerted |-> alerted, empty |-> empty,
     threw |-> FALSE]

(* saveSearch, up to the setItem call *)
SaveSearchRead(t) ==
    \E item \in Items, ok \in StorageOutcomes :
      LET existingHistory == ReadHistory(ok)
          newItem == WithIdAndTimestamp(item, nextId, now)
          limitedHistory == LimitedHistory(newItem, existingHistory)
      IN  /\ CanStart(t)
          /\ htask' = [htask EXCEPT ![t] =
                 [pc |-> "saveWrite", pending |-> limitedHistory,
                  item |-> item, id |-> newItem.id,
                  timestamp |-> newItem.timestamp,
                  seen |-> hist, readOk |-> ok, alone |-> OthersIdle(t)]]
          /\ nextId' = nextId + 1
          /\ opsLeft' = opsLeft - 1
          /\ pure' = (pure /\ ok /\ OthersIdle(t))
          /\ UNCHANGED <<xvars, hist, now, faults, saved, lastSaved, lastGet,
                         getsAgree, lastDel, hcall,
                     lvars, dvars>>

(* saveSearch: setItem settles *)
SaveSearchWrite(t) ==
    \E ok \in StorageOutcomes :
      /\ htask[t].pc = "saveWrite"
      /\ hist' = IF ok THEN SetItem(hist, htask[t].pending) ELSE hist
      /\ htask' = [htask EXCEPT ![t] = IdleTask]
      /\ saved' = IF ok THEN <<htask[t].id>> \o saved ELSE saved
      /\ pure' = (pure /\ ok)
      /\ lastSaved' = IF ok
                      THEN [valid |-> TRUE, item |-> htask[t].item,
                            id |-> htask[t].id,
                            timestamp |-> htask[t].timestamp]
                      ELSE lastSaved
      /\ lastGet' = IF ok THEN NoGet ELSE lastGet
      /\ getsAgree' = IF ok THEN TRUE ELSE getsAgree
      /\ hcall' = Ended("saveSearch", ~(ok /\ htask[t].readOk),
                        htask[t].alone /\ OthersIdle(t)
                        /\ hist = htask[t].seen,
                        hist' = htask[t].seen, ~(ok /\ htask[t].readOk),
                        FALSE)
      /\ UNCHANGED <<xvars, now, nextId, faults, opsLeft, lastDel,
                     lvars, dvars>>

(* The ids a caller may ask to delete: one never assigned, the oldest and
   the newest one assigned so far. *)
DeleteIds == {0, 1, nextId - 1}

(* deleteSearchItem, up to the setItem call *)
DeleteSearchItemRead(t) ==
    \E id \in DeleteIds, ok \in StorageOutcomes :
      LET history == ReadHistory(ok)
          updatedHistory == WithoutId(history, id)
      IN  /\ CanStart(t)
          /\ htask' = [htask EXCEPT ![t] =
                 [pc |-> "deleteWrite", pending |-> updatedHistory,
                  id |-> id, seen |-> hist, readOk |-> ok,
                  alone |-> OthersIdle(t)]]
          /\ opsLeft' = opsLeft - 1
          /\ pure' = FALSE
          /\ UNCHANGED <<xvars, hist, now, nextId, faults, saved, lastSaved,
                         lastGet, getsAgree, lastDel, hcall,
                     lvars, dvars>>

(* deleteSearchItem: setItem settles *)
DeleteSearchItemWrite(t) ==
    \E ok \in StorageOutcomes :
      /\ htask[t].pc = "deleteWrite"
      /\ hist' = IF ok THEN SetItem(hist, htask[t].pending) ELSE hist
      /\ htask' = [htask EXCEPT ![t] = IdleTask]
      /\ lastDel' = [valid |-> TRUE,
                     absent |-> htask[t].id \notin Ids(htask[t].seen),
                     same |-> hist' = htask[t].seen,
                     noFailure |-> (ok /\ htask[t].readOk),
                     alone |-> (htask[t].alone /\ OthersIdle(t)
                                /\ hist = htask[t].seen),
                     threw |-> FALSE]
      /\ hcall' = Ended("deleteSearchItem", ~(ok /\ htask[t].readOk),
                        htask[t].alone /\ OthersIdle(t)
                        /\ hist = htask[t].seen,
                        hist' = htask[t].seen, ~(ok /\ htask[t].readOk),
                        FALSE)
      /\ lastSaved' = IF ok THEN NoEntry ELSE lastSaved
      /\ lastGet' = IF ok THEN NoGet ELSE lastGet
      /\ getsAgree' = IF ok THEN TRUE ELSE getsAgree
      /\ gone' = IF ok
               THEN [gone EXCEPT !.history = @ \cup ({htask[t].id} \cap Ids(hist))]
               ELSE gone
      /\ UNCHANGED <<gvars, fvars, join, held, made, now, nextId, faults,
                     opsLeft, saved, pure, lvars, dvars>>

(* clearAllHistory: removeItem is its only await *)
ClearAllHistory(t) ==
    \E ok \in StorageOutcomes :
      /\ CanStart(t)
      /\ hist' = IF ok THEN <<>> ELSE hist
      /\ opsLeft' = opsLeft - 1
      /\ pure' = FALSE
      /\ lastSaved' = IF ok THEN NoEntry ELSE lastSaved
      /\ lastGet' = IF ok THEN NoGet ELSE lastGet
      /\ getsAgree' = IF ok THEN TRUE ELSE getsAgree
      /\ hcall' = Ended("clearAllHistory", ~ok, OthersIdle(t), hist' = hist,
                        TRUE, FALSE)
      /\ gone' = IF ok THEN [gone EXCEPT !.history = @ \cup Ids(hist)]
               ELSE gone
      /\ UNCHANGED <<gvars, fvars, join, held, made, htask, now, nextId,
                     faults, saved, lastDel, lvars, dvars>>

(* A getSearchHistory that persists its migration and keeps, in what it
   persists, only the entries that needed none *)
GetSearchHistoryCallWritingBack(t) ==
    \E ok \in StorageOutcomes :
      /\ CanStart(t)
      /\ opsLeft' = opsLeft - 1
      /\ hist' = IF ok THEN SelectSeq(hist, LAMBDA e : e.nutritionData # Absent)
                 ELSE hist
      /\ lastGet' = IF ok
                    THEN [valid |-> TRUE, list |-> GetSearchHistory(hist),
                          count |-> IF lastGet.valid THEN 2 ELSE 1]
                    ELSE lastGet
      /\ getsAgree' = IF ok /\ lastGet.valid
                      THEN GetSearchHistory(hist) = lastGet.list
                      ELSE getsAgree
      /\ hcall' = Ended("getSearchHistory", ~ok, OthersIdle(t), TRUE, ~ok,
                        ReadHistory(ok) = <<>>)
      /\ UNCHANGED <<xvars, htask, now, nextId, faults, saved, pure,
                     lastSaved, lastDel, lvars, dvars>>

(* getSearchHistory called by a screen: getItem is its only await.  A
   failed read returns [] and is not recorded as a result. *)
GetSearchHistoryCall(t) ==
    \E ok \in StorageOutcomes :
      /\ CanStart(t)
      /\ opsLeft' = opsLeft - 1
      /\ lastGet' = IF ok
                    THEN [valid |-> TRUE, list |-> GetSearchHistory(hist),
                          count |-> IF lastGet.valid THEN 2 ELSE 1]
                    ELSE lastGet
      /\ getsAgree' = IF ok /\ lastGet.valid
                      THEN GetSearchHistory(hist) = lastGet.list
                      ELSE getsAgree
      /\ hcall' = Ended("getSearchHistory", ~ok, OthersIdle(t), TRUE, ~ok,
                        ReadHistory(ok) = <<>>)
      /\ UNCHANGED <<xvars, hist, htask, now, nextId, faults, saved, pure,
                     lastSaved, lastDel,
                     lvars, dvars>>

(* Counts that take in the entries on the boundary of a window *)
SearchStatsInclusive(history) ==
    LET oneWeekAgo == now - OneWeek
        oneMonthAgo == now - OneMonth
        Newer(limit) ==
            Len(SelectSeq(history, LAMBDA item : item.timestamp >= limit))
    IN  [totalSearches |-> Len(history), thisWeek |-> Newer(oneWeekAgo),
         thisMonth |-> Newer(oneMonthAgo)]

(* The counts of getSearchStats over the list getSearchHistory gave it *)
SearchStats(history) ==
    LET oneWeekAgo == now - OneWeek
        oneMonthAgo == now - OneMonth
        Newer(limit) ==
            Len(SelectSeq(history, LAMBDA item : item.timestamp > limit))
    IN  [totalSearches |-> Len(history), thisWeek |-> Newer(oneWeekAgo),
         thisMonth |-> Newer(oneMonthAgo)]

(* getSearchStats: the getItem inside getSearchHistory is its only await *)
GetSearchStatsCall(t) ==
    \E ok \in StorageOutcomes :
      /\ CanStart(t)
      /\ opsLeft' = opsLeft - 1
      /\ hcall' = Ended("getSearchStats", ~ok, OthersIdle(t), TRUE, ~ok,
                        SearchStats(ReadHistory(ok)) =
                            [totalSearches |-> 0, thisWeek |-> 0,
                             thisMonth |-> 0])
                   @@ [stats |-> SearchStats(ReadHistory(ok)), of |-> hist,
                       at |-> now]
      /\ UNCHANGED <<xvars, hist, htask, now, nextId, faults, saved, pure,
                     lastSaved, lastGet, getsAgree, lastDel,
                     lvars, dvars>>

(* Time passes *)
Tick ==
    /\ now < HISTORY_CAP + MaxTicks
    /\ now' = now + 1
    /\ UNCHANGED <<xvars, hist, htask, nextId, faults, opsLeft, saved, pure,
                   lastSaved, lastGet, getsAgree, lastDel, hcall,
                     lvars, dvars>>

----------------------------------------------------------------------------
(* The stored history when the app starts: empty, or what earlier runs left:
   n entries saved one after the other, two per millisecond, the oldest one
   possibly written by an older version of the app. *)

StoredEntry(id, legacy) ==
    IF legacy /\ id = 1
    THEN LegacyEntry(id, (id + 1) \div 2)
    ELSE WithIdAndTimestamp(
             IF id % 2 = 0 THEN Item("Apple", 150, AppleData)
             ELSE Item("Banana", 120, BananaData),
             id, (id + 1) \div 2)

StoredHistory(n, legacy) == [i \in 1..n |-> StoredEntry(n + 1 - i, legacy)]

InitialSizes == {0, HISTORY_CAP - 1, HISTORY_CAP}

DefaultLimits ==
    [calories |-> 2000, potassium |-> 2000, phosphorus |-> 800, sodium |-> 2000]

LogIdle ==
    /\ log = <<>>
    /\ ltask = [t \in Tasks |-> IdleTask]
    /\ limits = DefaultLimits
    /\ daily = [valid |-> FALSE]
    /\ ctx = [valid |-> FALSE]
    /\ lcall = [valid |-> FALSE]

DateIdle ==
    /\ tzOff = 0
    /\ dstShift = 0
    /\ entry = [kind |-> "none"]
    /\ label = [valid |-> FALSE]

(* No gateway operation was started *)
GateIdle ==
    /\ gcall = [pc |-> "idle", invoked |-> 0]
    /\ gres = [valid |-> FALSE]
    /\ sent = 0

(* getFullNutritionData and getDailyLimits were not called *)
JoinIdle ==
    /\ join = [valid |-> FALSE]
    /\ held = [valid |-> FALSE]
    /\ made = [valid |-> FALSE]
    /\ gone = [history |-> {}, log |-> {}]

(* No screen handler was started *)
FlowIdle ==
    /\ flow = [pc |-> "idle"]
    /\ screen = [valid |-> FALSE]

HistInit ==
    \E n \in InitialSizes, legacy \in BOOLEAN :
      /\ GateIdle
      /\ FlowIdle
      /\ JoinIdle
      /\ LogIdle
      /\ DateIdle
      /\ hist = StoredHistory(n, legacy)
      /\ htask = [t \in Tasks |-> IdleTask]
      /\ now = HISTORY_CAP
      /\ nextId = n + 1
      /\ faults \in BOOLEAN
      /\ opsLeft = MaxOps
      /\ saved = [i \in 1..n |-> n + 1 - i]
      /\ pure = ~legacy
      /\ lastSaved = NoEntry
      /\ lastGet = NoGet
      /\ getsAgree = TRUE
      /\ lastDel = [valid |-> FALSE]
      /\ hcall = [valid |-> FALSE]

HistNext ==
    \/ \E t \in Tasks : SaveSearchRead(t)
    \/ \E t \in Tasks : SaveSearchWrite(t)
    \/ \E t \in Tasks : DeleteSearchItemRead(t)
    \/ \E t \in Tasks : DeleteSearchItemWrite(t)
    \/ \E t \in Tasks : ClearAllHistory(t)
    \/ \E t \in Tasks : GetSearchHistoryCall(t)
    \/ \E t \in Tasks : GetSearchStatsCall(t)
    \/ Tick

Spec == HistInit /\ [][HistNext]_vars

----------------------------------------------------------------------------
(* The statistics of a history whose entries are a week and a month old.
   The history clock counts seconds here. *)

(* How old the stored entries can be: new, and one second less than, as old
   as and one second older than a week and a month *)
StoredAges ==
    <<0, OneWeek - 1, OneWeek, OneWeek + 1,
      OneMonth - 1, OneMonth, OneMonth + 1>>

StatsStart == OneMonth + 1

(* The stored history: any of the entries, newest first *)
StatsInit ==
    \E kept \in SUBSET (1..Len(StoredAges)) :
      LET all == [i \in 1..Len(StoredAges) |->
                    WithIdAndTimestamp(Item("Apple", 150, AppleData),
                                       Len(StoredAges) + 1 - i,
                                       StatsStart - StoredAges[i])]
          stored == SelectSeq(all, LAMBDA e :
                                  Len(StoredAges) + 1 - e.id \in kept)
      IN  /\ GateIdle
          /\ FlowIdle
          /\ JoinIdle
          /\ LogIdle
          /\ DateIdle
          /\ hist = stored
          /\ htask = [t \in Tasks |-> IdleTask]
          /\ now = StatsStart
          /\ nextId = Len(StoredAges) + 1
          /\ faults \in BOOLEAN
          /\ opsLeft = MaxOps
          /\ saved = [i \in 1..Len(stored) |-> stored[i].id]
          /\ pure = TRUE
          /\ lastSaved = NoEntry
          /\ lastGet = NoGet
          /\ getsAgree = TRUE
          /\ lastDel = [valid |-> FALSE]
          /\ hcall = [valid |-> FALSE]

(* A second passes *)
SecondTick ==
    /\ now < StatsStart + MaxTicks
    /\ now' = now + 1
    /\ UNCHANGED <<xvars, hist, htask, nextId, faults, opsLeft, saved, pure,
                   lastSaved, lastGet, getsAgree, lastDel, hcall,
                   lvars, dvars>>

StatsNext ==
    \/ \E t \in Tasks : SaveSearchRead(t)
    \/ \E t \in Tasks : SaveSearchWrite(t)
    \/ \E t \in Tasks : GetSearchStatsCall(t)
    \/ SecondTick

SpecStats == StatsInit /\ [][StatsNext]_vars

----------------------------------------------------------------------------
(* Dates.  Where dates matter the clock is read in hours; hour 0 is
   2025-01-01T00:00Z.  A date string YYYY-MM-DD is held as its three
   numbers; a Date object is held as its instant.  The device's zone is
   tzOff hours east of UTC and, when dstShift is not 0, changes its offset
   by dstShift at 02:00 local standard time of DstDate (+1: clocks go
   forward and that day has 23 hours; -1: clocks go back, 25 hours). *)

MonthLengths == <<31, 28, 31, 30, 31, 30, 31, 31, 30, 31, 30, 31>>

DaysBeforeMonth(m) ==
    LET RECURSIVE Sum(_)
        Sum(k) == IF k = 0 THEN 0 ELSE MonthLengths[k] + Sum(k - 1)
    IN  Sum(m - 1)

(* The date string of day n of the year, n = 0 for January 1st *)
DateFromDays(n) ==
    LET m == CHOOSE k \in 1..12 :
                 DaysBeforeMonth(k) <= n /\ n < DaysBeforeMonth(k) + MonthLengths[k]
    IN  [y |-> 2025, m |-> m, d |-> n - DaysBeforeMonth(m) + 1]

(* The day of the year a date string names *)
DaysFromDate(date) == DaysBeforeMonth(date.m) + date.d - 1

DstDate == [y |-> 2025, m |-> 3, d |-> 9]

TransitionInstant == DaysFromDate(DstDate) * HoursPerDay + 2 - tzOff

(* Hours east of UTC in force at an instant *)
OffsetAt(h) ==
    IF dstShift # 0 /\ h >= TransitionInstant THEN tzOff + dstShift ELSE tzOff

(* date.toISOString().split("T")[0]: the UTC calendar date of an instant *)
ToISODateString(h) == DateFromDays(h \div HoursPerDay)

(* getFullYear(), getMonth(), getDate(): the local calendar day of an
   instant *)
LocalDay(h) == (h + OffsetAt(h)) \div HoursPerDay

(* new Date(year, month, day) and new Date(dateString + "T00:00:00"):
   the instant of 00:00 local time on day n *)
LocalMidnight(n) ==
    LET h == n * HoursPerDay - tzOff
    IN  IF dstShift # 0 /\ h >= TransitionInstant THEN h - dstShift ELSE h

(* FoodLogService.getCurrentDateString *)
GetCurrentDateString(h) == ToISODateString(h)

(* FoodLogService.formatDate(dateString) with no translator, called at
   instant h *)
FormatDate(dateString, h) ==
    LET entryDate == LocalMidnight(DaysFromDate(dateString))
        entryDateObj == LocalMidnight(LocalDay(entryDate))
        todayObj == LocalMidnight(LocalDay(h))
        diffTime == todayObj - entryDateObj
        diffDays == diffTime \div HoursPerDay
    IN  IF diffDays = 0 THEN [text |-> "Today"]
        ELSE IF diffDays = 1 THEN [text |-> "Yesterday"]
        ELSE IF diffDays = 2 THEN [text |-> "days ago", n |-> 2]
        ELSE IF diffDays <= 7 THEN [text |-> "days ago", n |-> diffDays]
        ELSE [text |-> "date", date |-> dateString]

NoLabel == [valid |-> FALSE]
NoDate == [kind |-> "none"]

(* createEntryFromSearchHistory(item) with the default date *)
CreateEntryDefaultDate ==
    /\ entry' = [kind |-> "today", date |-> GetCurrentDateString(now)]
    /\ label' = NoLabel
    /\ UNCHANGED <<xvars, svars, hvars, lvars, tzOff, dstShift>>

(* handleDateSelection: the user picks today or yesterday *)
HandleDateSelection ==
    \E choice \in {"today", "yesterday"} :
      LET today == now
          yesterday == now - HoursPerDay
      IN  /\ entry' = [kind |-> choice,
                       date |-> IF choice = "today"
                                THEN ToISODateString(today)
                                ELSE ToISODateString(yesterday)]
          /\ label' = NoLabel
          /\ UNCHANGED <<xvars, svars, hvars, lvars, tzOff, dstShift>>

(* formatDate applied to the date just computed for a new entry *)
FormatEntryDate ==
    /\ entry.kind # "none"
    /\ label' = [valid |-> TRUE, date |-> entry.date,
                 result |-> FormatDate(entry.date, now)]
    /\ UNCHANGED <<xvars, svars, hvars, lvars, tzOff, dstShift, entry>>

(* formatDate applied to the date of a stored entry: the local calendar
   date k days before today *)
FormatStoredDate ==
    \E k \in 0..MaxDaysBack :
      LET date == DateFromDays(LocalDay(now) - k)
      IN  /\ label' = [valid |-> TRUE, date |-> date,
                       result |-> FormatDate(date, now)]
          /\ entry' = NoDate
          /\ UNCHANGED <<xvars, svars, hvars, lvars, tzOff, dstShift>>

(* An hour passes; the results computed before belong to the hour before *)
HourTick ==
    /\ now < (DaysFromDate(DstDate) + MaxDaysBack) * HoursPerDay + MaxHours
    /\ now' = now + 1
    /\ entry' = NoDate
    /\ label' = NoLabel
    /\ UNCHANGED <<xvars, nextId, faults, opsLeft, hvars, lvars, tzOff, dstShift>>

HistIdle ==
    /\ hist = <<>>
    /\ htask = [t \in Tasks |-> IdleTask]
    /\ saved = <<>>
    /\ pure = TRUE
    /\ lastSaved = NoEntry
    /\ lastGet = NoGet
    /\ getsAgree = TRUE
    /\ lastDel = [valid |-> FALSE]
    /\ hcall = [valid |-> FALSE]

TimeZones == {-5, 0, 9}

(* The UTC days on which a run starts: from the day before the change of
   offset to MaxDaysBack days after it *)
StartDays ==
    (DaysFromDate(DstDate) - 1)..(DaysFromDate(DstDate) + MaxDaysBack)

DateInit ==
    /\ GateIdle
    /\ FlowIdle
    /\ JoinIdle
    /\ HistIdle
    /\ LogIdle
    /\ tzOff \in TimeZones
    /\ dstShift \in {-1, 0, 1}
    /\ now \in {d * HoursPerDay : d \in StartDays}
    /\ nextId = 1
    /\ faults = FALSE
    /\ opsLeft = 0
    /\ entry = NoDate
    /\ label = NoLabel

DateNext ==
    \/ CreateEntryDefaultDate
    \/ HandleDateSelection
    \/ FormatEntryDate
    \/ FormatStoredDate
    \/ HourTick

SpecDate == DateInit /\ [][DateNext]_vars

----------------------------------------------------------------------------
(* FoodLogService: pure parts *)

(* A number that may be undefined: <<x>> for the number x, << >> for
   undefined *)
Number(x) == <<x>>
Undefined == << >>

(* What the caller of addFoodEntry supplies besides the date *)
LogFoods ==
    {[foodName |-> "Apple", weight |-> 150, calories |-> Number(84),
      potassium |-> 160, phosphorus |-> 17, sodium |-> 2],
     [foodName |-> "Broth", weight |-> 200, calories |-> Undefined,
      potassium |-> 1800, phosphorus |-> 800, sodium |-> 2100]}

(* An id that may be the empty string: << >> for "", <<id>> for the id *)
EmptyId == << >>

NewLogEntry(food, date, id, ts) ==
    [id |-> id, timestamp |-> ts, date |-> date, foodName |-> food.foodName,
     weight |-> food.weight, calories |-> food.calories,
     potassium |-> food.potassium, phosphorus |-> food.phosphorus,
     sodium |-> food.sodium, nutritionDataId |-> EmptyId]

(* getAllFoodLog: a failed read is caught inside it and gives [] *)
GetAllFoodLog(ok) == IF ok THEN log ELSE <<>>

(* allEntries.filter((entry) => entry.date === date) *)
EntriesForDate(allEntries, date) ==
    SelectSeq(allEntries, LAMBDA e : e.date = date)

(* entry.calories || 0 *)
CaloriesOrZero(e) == IF e.calories = Undefined THEN 0 ELSE e.calories[1]

(* A reducer that keeps the last entry's weight instead of adding it *)
AddToTotalsLastWeight(totals, e) ==
    [weight |-> e.weight,
     calories |-> totals.calories + CaloriesOrZero(e),
     potassium |-> totals.potassium + e.potassium,
     phosphorus |-> totals.phosphorus + e.phosphorus,
     sodium |-> totals.sodium + e.sodium]

(* The reducer of getDailyFoodLogs *)
AddToTotals(totals, e) ==
    [weight |-> totals.weight + e.weight,
     calories |-> totals.calories + CaloriesOrZero(e),
     potassium |-> totals.potassium + e.potassium,
     phosphorus |-> totals.phosphorus + e.phosphorus,
     sodium |-> totals.sodium + e.sodium]

ZeroTotals ==
    [weight |-> 0, calories |-> 0, potassium |-> 0, phosphorus |-> 0,
     sodium |-> 0]

(* entries.reduce(reducer, initial), from the first entry to the last *)
RECURSIVE TotalNutrients(_)
TotalNutrients(entries) ==
    IF entries = <<>> THEN ZeroTotals
    ELSE AddToTotals(TotalNutrients(SubSeq(entries, 1, Len(entries) - 1)),
                     entries[Len(entries)])

(* Object.keys(groupedByDate): each date once, in the order in which the
   reduce met it first *)
RECURSIVE DateKeys(_)
DateKeys(allEntries) ==
    IF allEntries = <<>> THEN <<>>
    ELSE LET front == DateKeys(SubSeq(allEntries, 1, Len(allEntries) - 1))
             date == allEntries[Len(allEntries)].date
         IN  IF \E i \in 1..Len(front) : front[i] = date THEN front
             ELSE Append(front, date)

(* b.localeCompare(a) < 0 for two YYYY-MM-DD strings: a is the later one
   when the strings differ first in a place where a has the larger digit *)
DateStringAfter(a, b) ==
    \/ a.y > b.y
    \/ a.y = b.y /\ a.m > b.m
    \/ a.y = b.y /\ a.m = b.m /\ a.d > b.d

(* The keys left in the order of Object.keys *)
KeysUnsorted(keys) == keys

(* keys.sort((a, b) => b.localeCompare(a)) on keys that are all different *)
SortKeysDesc(keys) ==
    LET n == Len(keys)
        pos == [i \in 1..n |->
                  Cardinality({j \in 1..n : DateStringAfter(keys[j], keys[i])}) + 1]
    IN  [p \in 1..n |-> keys[CHOOSE i \in 1..n : pos[i] = p]]

(* getDailyFoodLogs on the list that getAllFoodLog returned *)
GetDailyFoodLogs(allEntries) ==
    LET keys == SortKeysDesc(DateKeys(allEntries))
    IN  [b \in 1..Len(keys) |->
           LET entries == EntriesForDate(allEntries, keys[b])
           IN  [date |-> keys[b], entries |-> entries,
                totalNutrients |-> TotalNutrients(entries)]]

(* A reducer that keeps the last entry's sodium instead of adding it *)
AddToIntakeLastSodium(totals, e) ==
    [calories |-> totals.calories + CaloriesOrZero(e),
     potassium |-> totals.potassium + e.potassium,
     phosphorus |-> totals.phosphorus + e.phosphorus,
     sodium |-> e.sodium]

(* The reducer of getTodayNutritionContext *)
AddToIntake(totals, e) ==
    [calories |-> totals.calories + CaloriesOrZero(e),
     potassium |-> totals.potassium + e.potassium,
     phosphorus |-> totals.phosphorus + e.phosphorus,
     sodium |-> totals.sodium + e.sodium]

ZeroIntake == [calories |-> 0, potassium |-> 0, phosphorus |-> 0, sodium |-> 0]

RECURSIVE CurrentIntake(_)
CurrentIntake(entries) ==
    IF entries = <<>> THEN ZeroIntake
    ELSE AddToIntake(CurrentIntake(SubSeq(entries, 1, Len(entries) - 1)),
                     entries[Len(entries)])

Max(a, b) == IF a >= b THEN a ELSE b

(* The remainder without its floor: limit - intake *)
RemainingUnfloored(lim, intake) == [k \in DOMAIN lim |-> lim[k] - intake[k]]

(* remaining: Math.max(0, limit - intake) for each nutrient *)
Remaining(lim, intake) == [k \in DOMAIN lim |-> Max(0, lim[k] - intake[k])]

(* An assignment that replaces the object: the nutrients it does not name
   fall back to their defaults *)
AssignLimitsReplacing(lim, partial) ==
    [k \in DOMAIN lim |->
       IF k \in DOMAIN partial THEN partial[k]
       ELSE IF k = "phosphorus" THEN 800 ELSE 2000]

(* Object.assign(this.CKD_DAILY_LIMITS, partial) *)
AssignLimits(lim, partial) ==
    [k \in DOMAIN lim |-> IF k \in DOMAIN partial THEN partial[k] ELSE lim[k]]

(* The arguments of setDailyLimits in the model *)
PartialLimits ==
    {[potassium |-> 1500, sodium |-> 1500], [phosphorus |-> 1000]}

----------------------------------------------------------------------------
(* FoodLogService and the gateway's nutrition context: the calls *)

LogCanStart(t) == ltask[t].pc = "idle" /\ opsLeft > 0

(* The record of a call in which a storage call failed.  getAllFoodLog
   catches a failed read; addFoodEntry, deleteFoodEntry, updateFoodEntry
   and clearAllFoodLog log the error of a failed write and throw it on. *)
FailedCall(op, writeFailed) ==
    [valid |-> TRUE, op |-> op, threw |-> writeFailed]

(* addFoodEntry, up to the setItem call; the date is the one
   handleDateSelection computes for today or for yesterday *)
AddFoodEntryRead(t) ==
    \E food \in LogFoods, daysBack \in {0, 1}, ok \in StorageOutcomes :
      LET existingLog == GetAllFoodLog(ok)
          date == ToISODateString(now - daysBack * HoursPerDay)
          newEntry == NewLogEntry(food, date, nextId, now)
      IN  /\ LogCanStart(t)
          /\ ltask' = [ltask EXCEPT ![t] =
                 [pc |-> "addWrite", pending |-> Append(existingLog, newEntry),
                  id |-> newEntry.id, seen |-> log, readOk |-> ok]]
          /\ nextId' = nextId + 1
          /\ opsLeft' = opsLeft - 1
          /\ UNCHANGED <<xvars, now, faults, log, limits, daily, ctx, lcall,
                         hvars, dvars>>

(* addFoodEntry: setItem settles; a rejected write is logged and rethrown *)
AddFoodEntryWrite(t) ==
    \E ok \in StorageOutcomes :
      /\ ltask[t].pc = "addWrite"
      /\ log' = IF ok THEN SetItem(log, ltask[t].pending) ELSE log
      /\ ltask' = [ltask EXCEPT ![t] = IdleTask]
      /\ lcall' = IF ok /\ ltask[t].readOk THEN lcall
                  ELSE FailedCall("addFoodEntry", ~ok)
      /\ UNCHANGED <<xvars, svars, limits, daily, ctx, hvars, dvars>>

(* deleteFoodEntry, up to the setItem call *)
DeleteFoodEntryRead(t) ==
    \E id \in DeleteIds, ok \in StorageOutcomes :
      LET allEntries == GetAllFoodLog(ok)
          updatedEntries == WithoutId(allEntries, id)
      IN  /\ LogCanStart(t)
          /\ ltask' = [ltask EXCEPT ![t] =
                 [pc |-> "deleteWrite", pending |-> updatedEntries,
                  id |-> id, seen |-> log, readOk |-> ok]]
          /\ opsLeft' = opsLeft - 1
          /\ UNCHANGED <<xvars, now, nextId, faults, log, limits, daily, ctx,
                         lcall, hvars, dvars>>

(* deleteFoodEntry: setItem settles; a rejected write is logged and
   rethrown *)
DeleteFoodEntryWrite(t) ==
    \E ok \in StorageOutcomes :
      /\ ltask[t].pc = "deleteWrite"
      /\ log' = IF ok THEN SetItem(log, ltask[t].pending) ELSE log
      /\ ltask' = [ltask EXCEPT ![t] = IdleTask]
      /\ lcall' = IF ok /\ ltask[t].readOk THEN lcall
                  ELSE FailedCall("deleteFoodEntry", ~ok)
      /\ gone' = IF ok
               THEN [gone EXCEPT !.log = @ \cup ({ltask[t].id} \cap Ids(log))]
               ELSE gone
      /\ UNCHANGED <<gvars, fvars, join, held, made, svars, limits, daily,
                     ctx, hvars, dvars>>

(* What the caller of updateFoodEntry supplies: the back-reference, or a
   corrected weight and calorie count *)
EntryUpdates ==
    {[nutritionDataId |-> Number(1)],
     [weight |-> 75, calories |-> Number(42)]}

(* A map that puts the updates in the place of the entry *)
UpdatedEntriesReplacing(allEntries, id, updates) ==
    [i \in 1..Len(allEntries) |->
        IF allEntries[i].id = id THEN updates ELSE allEntries[i]]

(* allEntries.map((entry) => entry.id === id ? {...entry, ...updates}
   : entry) *)
UpdatedEntries(allEntries, id, updates) ==
    [i \in 1..Len(allEntries) |->
        IF allEntries[i].id = id THEN updates @@ allEntries[i]
        ELSE allEntries[i]]

(* updateFoodEntry, up to the setItem call *)
UpdateFoodEntryRead(t) ==
    \E id \in DeleteIds, updates \in EntryUpdates, ok \in StorageOutcomes :
      LET allEntries == GetAllFoodLog(ok)
          updatedEntries == UpdatedEntries(allEntries, id, updates)
      IN  /\ LogCanStart(t)
          /\ ltask' = [ltask EXCEPT ![t] =
                 [pc |-> "updateWrite", pending |-> updatedEntries,
                  id |-> id, updates |-> updates, seen |-> log,
                  readOk |-> ok]]
          /\ opsLeft' = opsLeft - 1
          /\ UNCHANGED <<xvars, now, nextId, faults, log, limits, daily, ctx,
                         lcall, hvars, dvars>>

(* updateFoodEntry: setItem settles; a rejected write is logged and
   rethrown *)
UpdateFoodEntryWrite(t) ==
    \E ok \in StorageOutcomes :
      /\ ltask[t].pc = "updateWrite"
      /\ log' = IF ok THEN SetItem(log, ltask[t].pending) ELSE log
      /\ ltask' = [ltask EXCEPT ![t] = IdleTask]
      /\ lcall' = IF ok /\ ltask[t].readOk THEN lcall
                  ELSE FailedCall("updateFoodEntry", ~ok)
      /\ UNCHANGED <<xvars, svars, limits, daily, ctx, hvars, dvars>>

(* clearAllFoodLog: removeItem is its only await *)
ClearAllFoodLog(t) ==
    \E ok \in StorageOutcomes :
      /\ LogCanStart(t)
      /\ log' = IF ok THEN <<>> ELSE log
      /\ opsLeft' = opsLeft - 1
      /\ lcall' = IF ok THEN lcall ELSE FailedCall("clearAllFoodLog", TRUE)
      /\ gone' = IF ok THEN [gone EXCEPT !.log = @ \cup Ids(log)] ELSE gone
      /\ UNCHANGED <<gvars, fvars, join, held, made, now, nextId, faults,
                     ltask, limits, daily, ctx, hvars, dvars>>

(* getDailyFoodLogs: the read inside getAllFoodLog is its only await *)
GetDailyFoodLogsCall(t) ==
    \E ok \in StorageOutcomes :
      LET allEntries == GetAllFoodLog(ok)
      IN  /\ LogCanStart(t)
          /\ opsLeft' = opsLeft - 1
          /\ daily' = [valid |-> TRUE, readOk |-> ok, of |-> log,
                       buckets |-> GetDailyFoodLogs(allEntries)]
          /\ UNCHANGED <<xvars, now, nextId, faults, log, ltask, limits, ctx,
                         lcall, hvars, dvars>>

(* getTodayNutritionContext: the read inside getFoodLogForDate is its only
   await *)
GetTodayNutritionContext(t) ==
    \E ok \in StorageOutcomes :
      LET today == ToISODateString(now)
          todayEntries == EntriesForDate(GetAllFoodLog(ok), today)
          currentIntake == CurrentIntake(todayEntries)
      IN  /\ LogCanStart(t)
          /\ opsLeft' = opsLeft - 1
          /\ ctx' = [valid |-> TRUE, readOk |-> ok, today |-> today,
                     of |-> log,
                     currentIntake |-> currentIntake,
                     recommendedLimits |-> limits,
                     remaining |-> Remaining(limits, currentIntake)]
          /\ UNCHANGED <<xvars, now, nextId, faults, log, ltask, limits, daily,
                         lcall, hvars, dvars>>

(* setDailyLimits(partial) *)
SetDailyLimits ==
    \E partial \in PartialLimits :
      /\ opsLeft > 0
      /\ opsLeft' = opsLeft - 1
      /\ limits' = AssignLimits(limits, partial)
      /\ UNCHANGED <<xvars, now, nextId, faults, log, ltask, daily, ctx,
                     lcall, hvars, dvars>>

LogStart == DaysFromDate(DstDate) * HoursPerDay + 12

(* Half a day passes *)
HalfDayTick ==
    /\ now < LogStart + MaxHalfDays * 12
    /\ now' = now + 12
    /\ UNCHANGED <<xvars, nextId, faults, opsLeft, lvars, hvars, dvars>>

(* The stored log when the app starts: empty, or two entries that an
   earlier run added for the day before *)
StoredLog(n) ==
    [i \in 1..n |->
       NewLogEntry(CHOOSE f \in LogFoods :
                       (f.foodName = "Apple") <=> (i = 1),
                   ToISODateString(LogStart - HoursPerDay), i,
                   LogStart - HoursPerDay)]

LogInit ==
    /\ GateIdle
    /\ FlowIdle
    /\ JoinIdle
    /\ HistIdle
    /\ DateIdle
    /\ \E n \in {0, 2} : log = StoredLog(n) /\ nextId = n + 1
    /\ ltask = [t \in Tasks |-> IdleTask]
    /\ limits = DefaultLimits
    /\ daily = [valid |-> FALSE]
    /\ ctx = [valid |-> FALSE]
    /\ lcall = [valid |-> FALSE]
    /\ now = LogStart
    /\ faults \in BOOLEAN
    /\ opsLeft = MaxLogOps

LogNext ==
    \/ \E t \in Tasks : AddFoodEntryRead(t)
    \/ \E t \in Tasks : AddFoodEntryWrite(t)
    \/ \E t \in Tasks : DeleteFoodEntryRead(t)
    \/ \E t \in Tasks : DeleteFoodEntryWrite(t)
    \/ \E t \in Tasks : ClearAllFoodLog(t)
    \/ \E t \in Tasks : GetDailyFoodLogsCall(t)
    \/ \E t \in Tasks : GetTodayNutritionContext(t)
    \/ SetDailyLimits
    \/ HalfDayTick

SpecLog == LogInit /\ [][LogNext]_vars

(* The entry createEntryFromSearchHistory builds from a history item *)
EntryFromSearchHistory(item, date) ==
    [date |-> date, foodName |-> item.foodName, weight |-> item.weight,
     calories |-> Number(item.calories),
     potassium |-> item.nutritionData.minerals["potassium"],
     phosphorus |-> item.nutritionData.minerals["phosphorus"],
     sodium |-> item.nutritionData.minerals["sodium"],
     nutritionDataId |-> Number(item.id)]

(* { ...entry, id: this.generateId(), timestamp: Date.now() } *)
WithEntryId(fields, id, ts) == [id |-> id, timestamp |-> ts] @@ fields

(* The history items a screen passes to createEntryFromSearchHistory *)
HistoryItems == {StoredEntry(id, FALSE) : id \in {1, 2}}

(* createEntryFromSearchHistory: addFoodEntry up to its setItem; the date
   is today's by default, or the one given *)
CreateEntryRead(t) ==
    \E item \in HistoryItems, daysBack \in {0, 1}, ok \in StorageOutcomes :
      LET existingLog == GetAllFoodLog(ok)
          date == ToISODateString(now - daysBack * HoursPerDay)
          newEntry == WithEntryId(EntryFromSearchHistory(item, date),
                                  nextId, now)
      IN  /\ LogCanStart(t)
          /\ ltask' = [ltask EXCEPT ![t] =
                 [pc |-> "createWrite", pending |-> Append(existingLog, newEntry),
                  id |-> newEntry.id, seen |-> log, readOk |-> ok,
                  item |-> item, date |-> date]]
          /\ nextId' = nextId + 1
          /\ opsLeft' = opsLeft - 1
          /\ UNCHANGED <<xvars, now, faults, log, limits, daily, ctx, lcall,
                         hvars, dvars>>

(* The setItem of addFoodEntry settles: a rejected write is thrown on to
   the caller, otherwise getAllFoodLog is called *)
CreateEntryWrite(t) ==
    \E ok \in StorageOutcomes :
      /\ ltask[t].pc = "createWrite"
      /\ log' = IF ok THEN SetItem(log, ltask[t].pending) ELSE log
      /\ ltask' = [ltask EXCEPT ![t] =
             IF ok THEN [ltask[t] EXCEPT !.pc = "createReturn"]
             ELSE IdleTask]
      /\ lcall' = IF ok /\ ltask[t].readOk THEN lcall
                  ELSE FailedCall("addFoodEntry", ~ok)
      /\ made' = IF ok THEN made ELSE [valid |-> TRUE, threw |-> TRUE]
      /\ UNCHANGED <<svars, limits, daily, ctx, hvars, dvars, gvars, fvars,
                     join, held, gone>>

(* getAllFoodLog settles: allEntries[allEntries.length - 1] is returned,
   undefined for an empty list *)
CreateEntryReturn(t) ==
    \E ok \in StorageOutcomes :
      LET allEntries == GetAllFoodLog(ok)
      IN  /\ ltask[t].pc = "createReturn"
          /\ ltask' = [ltask EXCEPT ![t] = IdleTask]
          /\ made' = [valid |-> TRUE, threw |-> FALSE,
                      readsOk |-> (ok /\ ltask[t].readOk),
                      item |-> ltask[t].item, date |-> ltask[t].date,
                      id |-> ltask[t].id,
                      returned |-> IF allEntries = <<>> THEN Undefined
                                   ELSE <<allEntries[Len(allEntries)]>>]
          /\ lcall' = IF ok THEN lcall
                      ELSE FailedCall("getAllFoodLog", FALSE)
          /\ UNCHANGED <<svars, log, limits, daily, ctx, hvars, dvars, gvars,
                         fvars, join, held, gone>>

CreateNext ==
    \/ \E t \in Tasks : CreateEntryRead(t)
    \/ \E t \in Tasks : CreateEntryWrite(t)
    \/ \E t \in Tasks : CreateEntryReturn(t)
    \/ \E t \in Tasks : AddFoodEntryRead(t)
    \/ \E t \in Tasks : AddFoodEntryWrite(t)
    \/ \E t \in Tasks : DeleteFoodEntryRead(t)
    \/ \E t \in Tasks : DeleteFoodEntryWrite(t)

(* The log as an earlier run left it, and two calls to come *)
CreateInit ==
    /\ GateIdle
    /\ FlowIdle
    /\ JoinIdle
    /\ HistIdle
    /\ DateIdle
    /\ \E n \in {0, 2} : log = StoredLog(n) /\ nextId = n + 1
    /\ ltask = [t \in Tasks |-> IdleTask]
    /\ limits = DefaultLimits
    /\ daily = [valid |-> FALSE]
    /\ ctx = [valid |-> FALSE]
    /\ lcall = [valid |-> FALSE]
    /\ now = LogStart
    /\ faults \in BOOLEAN
    /\ opsLeft = MaxCreateOps

SpecCreate == CreateInit /\ [][CreateNext]_vars

(* The calls that write the log *)
EditNext ==
    \/ \E t \in Tasks : AddFoodEntryRead(t)
    \/ \E t \in Tasks : AddFoodEntryWrite(t)
    \/ \E t \in Tasks : DeleteFoodEntryRead(t)
    \/ \E t \in Tasks : DeleteFoodEntryWrite(t)
    \/ \E t \in Tasks : UpdateFoodEntryRead(t)
    \/ \E t \in Tasks : UpdateFoodEntryWrite(t)
    \/ \E t \in Tasks : ClearAllFoodLog(t)

SpecEdit == LogInit /\ [][EditNext]_vars

----------------------------------------------------------------------------
(* The daily limits of the gateway and their readers *)

(* A getDailyLimits that hands out the gateway's own object *)
GetDailyLimitsAliased == [shared |-> TRUE, value |-> limits]

(* getDailyLimits(): { ...this.CKD_DAILY_LIMITS } is a new object with the
   same properties *)
GetDailyLimits == [shared |-> FALSE, value |-> limits]

(* A caller asks for the limits *)
GetDailyLimitsCall ==
    /\ IF held.valid THEN held.changed ELSE TRUE
    /\ held' = [valid |-> TRUE, shared |-> GetDailyLimits.shared,
                value |-> GetDailyLimits.value, changed |-> FALSE]
    /\ UNCHANGED <<svars, hvars, lvars, dvars, gvars, fvars, join, made,
                   gone>>

(* The caller assigns to a property of the object it got; the gateway's
   object changes with it when the two are one object *)
ChangeReturned ==
    \E k \in DOMAIN DefaultLimits :
      /\ held.valid
      /\ ~held.changed
      /\ held' = [held EXCEPT !.value = [@ EXCEPT ![k] = 0],
                              !.changed = TRUE]
      /\ limits' = IF held.shared THEN [limits EXCEPT ![k] = 0] ELSE limits
      /\ UNCHANGED <<svars, hvars, log, ltask, daily, ctx, lcall, dvars,
                     gvars, fvars, join, made, gone>>

----------------------------------------------------------------------------
(* Saves that overlap.  The screens do not wait for one saveSearch or
   addFoodEntry to settle before they start the next, and AsyncStorage
   serves the getItem and setItem calls in the order they were issued: the
   reads and the writes of two calls on one key interleave freely. *)

(* Both stores hold what an earlier run left: nothing, or two entries.
   Storage does not fail in these runs: every call succeeds. *)
RaceInit ==
    \E n \in {0, 2} :
      /\ GateIdle
      /\ FlowIdle
      /\ JoinIdle
      /\ DateIdle
      /\ hist = StoredHistory(n, FALSE)
      /\ htask = [t \in Tasks |-> IdleTask]
      /\ saved = [i \in 1..n |-> n + 1 - i]
      /\ pure = TRUE
      /\ lastSaved = NoEntry
      /\ lastGet = NoGet
      /\ getsAgree = TRUE
      /\ lastDel = [valid |-> FALSE]
      /\ hcall = [valid |-> FALSE]
      /\ log = StoredLog(n)
      /\ ltask = [t \in Tasks |-> IdleTask]
      /\ limits = DefaultLimits
      /\ daily = [valid |-> FALSE]
      /\ ctx = [valid |-> FALSE]
      /\ lcall = [valid |-> FALSE]
      /\ nextId = n + 1
      /\ now = LogStart
      /\ faults = FALSE
      /\ opsLeft = MaxSaves

RaceNext ==
    \/ \E t \in Tasks : SaveSearchRead(t)
    \/ \E t \in Tasks : SaveSearchWrite(t)
    \/ \E t \in Tasks : AddFoodEntryRead(t)
    \/ \E t \in Tasks : AddFoodEntryWrite(t)

SpecRace == RaceInit /\ [][RaceNext]_vars

----------------------------------------------------------------------------
(* FoodLogService.getFullNutritionData: the join of a log entry with the
   search history.  An optional property of an entry is a field the record
   has or lacks; the result is null or the record found, held as the empty
   or the one-element sequence. *)

Null == << >>

(* A full nutrition record that no history entry of the model holds *)
CustomData == [AppleData EXCEPT !.macros = Macros(2, 1, 1, 0, 0)]

(* entry.nutritionDataId and entry.customNutritionData: undefined when the
   entry has no such property *)
NutritionDataId(logEntry) ==
    IF "nutritionDataId" \in DOMAIN logEntry THEN logEntry.nutritionDataId
    ELSE Undefined

CustomNutritionData(logEntry) ==
    IF "customNutritionData" \in DOMAIN logEntry
    THEN logEntry.customNutritionData ELSE Undefined

(* A join that looks at the inline snapshot first *)
GetFullNutritionDataCustomFirst(logEntry, ok) ==
    LET history == ReadHistory(ok)
        found == SelectSeq(history, LAMBDA item :
                               Number(item.id) = NutritionDataId(logEntry))
    IN  IF CustomNutritionData(logEntry) # Undefined
        THEN CustomNutritionData(logEntry)
        ELSE IF NutritionDataId(logEntry) # EmptyId /\ found # <<>>
        THEN <<found[1].nutritionData>>
        ELSE Null

(* getFullNutritionData(entry): an undefined or empty nutritionDataId is
   falsy and skips the lookup; history.find gives the first item with the
   id; without an item the inline snapshot is returned, or null *)
GetFullNutritionData(logEntry, ok) ==
    LET history == IF NutritionDataId(logEntry) # EmptyId THEN ReadHistory(ok)
                   ELSE <<>>
        found == SelectSeq(history, LAMBDA item :
                               Number(item.id) = NutritionDataId(logEntry))
    IN  IF found # <<>> THEN <<found[1].nutritionData>>
        ELSE IF CustomNutritionData(logEntry) # Undefined
        THEN CustomNutritionData(logEntry)
        ELSE Null

(* The entries the food-log screen can hold when one is pressed: without a
   back-reference, with the empty one the manual add writes first, with the
   id of a history entry or with an id the history never held or no longer
   holds; each with or without an inline snapshot *)
PressedEntries ==
    LET base == NewLogEntry(CHOOSE f \in LogFoods : f.foodName = "Apple",
                            <<2025, 3, 8>>, 1, 1)
        plain == [k \in DOMAIN base \ {"nutritionDataId"} |-> base[k]]
        refs == {[base EXCEPT !.nutritionDataId = Number(id)] :
                   id \in DeleteIds}
        bare == {plain, base} \cup refs
    IN  bare \cup {e @@ [customNutritionData |-> <<CustomData>>] : e \in bare}

(* handleEntryPress: getFullNutritionData(entry); the getItem inside
   getSearchHistory is its only await, and it is reached only with a
   non-empty back-reference *)
GetFullNutritionDataCall ==
    \E pressed \in PressedEntries, ok \in StorageOutcomes :
      /\ opsLeft > 0
      /\ opsLeft' = opsLeft - 1
      /\ join' = [valid |-> TRUE, entry |-> pressed, of |-> hist,
                  readOk |-> ok \/ NutritionDataId(pressed) = EmptyId,
                  result |-> GetFullNutritionData(pressed, ok)]
      /\ UNCHANGED <<now, nextId, faults, hvars, lvars, dvars, gvars, fvars,
                     held, made, gone>>

JoinNext ==
    \/ \E t \in Tasks : SaveSearchRead(t)
    \/ \E t \in Tasks : SaveSearchWrite(t)
    \/ \E t \in Tasks : DeleteSearchItemRead(t)
    \/ \E t \in Tasks : DeleteSearchItemWrite(t)
    \/ GetFullNutritionDataCall

SpecJoin == HistInit /\ [][JoinNext]_vars

----------------------------------------------------------------------------
(* GeminiService: the response of the model endpoint and its parsing.  A
   response text is held as its sequence of lexical pieces: the braces and
   brackets, "k" for a member name with its colon ("k":), "1" for a number
   and "p" for a word of prose.  JSON values are held as trees; the values
   of the model are numbers, objects of at most one member and arrays of at
   most one element. *)

Chars == {"{", "}", "[", "]", "k", "1", "p"}

Texts == UNION {[1..n -> Chars] : n \in 0..MaxLen}

JNum == [t |-> "num"]
JObj(members) == [t |-> "obj", m |-> members]
JArr(elements) == [t |-> "arr", e |-> elements]

(* The five operations that post to the model endpoint *)
ObjectOps == {"analyzeFood", "analyzeFoodFromText", "estimateWeightFromImage",
              "getRecipeDetails"}
GatewayOps == ObjectOps \cup {"searchRenalFriendlyRecipes"}

(* What axios.post and the reading of candidates[0].content.parts[0].text
   can give: a rejected request without or with an HTTP status, a body
   whose candidates list is missing, a body without text, a text *)
Responses ==
    {[kind |-> "networkError"], [kind |-> "httpError"],
     [kind |-> "malformed"], [kind |-> "noText"]}
    \cup {[kind |-> "text", text |-> txt] : txt \in Texts}

(* The texts of the errors of the transport and of the runtime *)
CauseTexts == {"Network Error", "Request failed with status code 500",
               "Cannot read properties of undefined (reading '0')",
               "Unexpected token in JSON", "File not readable"}

(* A match that ends at the first closing character behind the opening
   one: /\{[\s\S]*?\}/ *)
JsonMatchLazy(text, op) ==
    LET open == IF op \in ObjectOps THEN "{" ELSE "["
        close == IF op \in ObjectOps THEN "}" ELSE "]"
        opens == {i \in 1..Len(text) : text[i] = open}
        first == CHOOSE i \in opens : \A i2 \in opens : i <= i2
        closes == {j \in 1..Len(text) : text[j] = close /\ j > first}
        last == CHOOSE j \in closes : \A j2 \in closes : j <= j2
    IN  IF opens # {} /\ closes # {}
        THEN [found |-> TRUE, span |-> SubSeq(text, first, last)]
        ELSE [found |-> FALSE]

(* responseText.match(/\{[\s\S]*\}/) and, for the recipe search,
   responseText.match(/\[[\s\S]*\]/): the leftmost opening character that
   has a closing character behind it, up to the last closing character *)
JsonMatch(text, op) ==
    LET open == IF op \in ObjectOps THEN "{" ELSE "["
        close == IF op \in ObjectOps THEN "}" ELSE "]"
        opens == {i \in 1..Len(text) : text[i] = open}
        closes == {j \in 1..Len(text) : text[j] = close}
        first == CHOOSE i \in opens : \A i2 \in opens : i <= i2
        last == CHOOSE j \in closes : \A j2 \in closes : j >= j2
    IN  IF opens # {} /\ closes # {} /\ first < last
        THEN [found |-> TRUE, span |-> SubSeq(text, first, last)]
        ELSE [found |-> FALSE]

(* JSON.parse: the value that starts at piece i and the piece behind it *)
RECURSIVE ParseAt(_, _)
ParseAt(s, i) ==
    LET Fail == [ok |-> FALSE]
        At(j) == IF j <= Len(s) THEN s[j] ELSE "end"
    IN  IF At(i) = "1" THEN [ok |-> TRUE, val |-> JNum, next |-> i + 1]
        ELSE IF At(i) = "{" /\ At(i + 1) = "}"
        THEN [ok |-> TRUE, val |-> JObj(<<>>), next |-> i + 2]
        ELSE IF At(i) = "{" /\ At(i + 1) = "k"
        THEN LET r == ParseAt(s, i + 2)
             IN  IF r.ok /\ At(r.next) = "}"
                 THEN [ok |-> TRUE, val |-> JObj(<<r.val>>),
                       next |-> r.next + 1]
                 ELSE Fail
        ELSE IF At(i) = "[" /\ At(i + 1) = "]"
        THEN [ok |-> TRUE, val |-> JArr(<<>>), next |-> i + 2]
        ELSE IF At(i) = "["
        THEN LET r == ParseAt(s, i + 1)
             IN  IF r.ok /\ At(r.next) = "]"
                 THEN [ok |-> TRUE, val |-> JArr(<<r.val>>),
                       next |-> r.next + 1]
                 ELSE Fail
        ELSE Fail

(* JSON.parse(text): the whole text must be one value *)
JsonParse(s) ==
    LET r == ParseAt(s, 1)
    IN  IF r.ok /\ r.next = Len(s) + 1 THEN [ok |-> TRUE, val |-> r.val]
        ELSE [ok |-> FALSE]

(* throw new Error(message); a message is held as the texts it is put
   together from *)
Throw(message) == [kind |-> "error", message |-> message]
Return(value) == [kind |-> "ok", value |-> value]

(* What each operation returns for the parsed value: the analyses, the
   recipe search and the recipe details return it as it is, the weight
   estimate is built from its fields *)
ReturnValue(op, parsed) ==
    IF op = "estimateWeightFromImage"
    THEN [estimateOf |-> parsed]
    ELSE parsed

(* The body of the try block from the response on *)
TryBody(op, response) ==
    IF response.kind = "networkError" THEN Throw(<<"Network Error">>)
    ELSE IF response.kind = "httpError"
    THEN Throw(<<"Request failed with status code 500">>)
    ELSE IF response.kind = "malformed"
    THEN Throw(<<"Cannot read properties of undefined (reading '0')">>)
    ELSE IF response.kind = "noText" \/ response.text = <<>>
    THEN Throw(<<"No response from Gemini API">>)
    ELSE LET jsonMatch == JsonMatch(response.text, op)
         IN  IF ~jsonMatch.found
             THEN Throw(<<"Invalid response format from Gemini">>)
             ELSE LET parsed == JsonParse(jsonMatch.span)
                  IN  IF ~parsed.ok THEN Throw(<<"Unexpected token in JSON">>)
                      ELSE Return(ReturnValue(op, parsed.val))

(* The message each operation's catch block throws *)
FailureMessage(op) ==
    IF op = "analyzeFood"
    THEN "Failed to analyze food with Gemini AI. Please check your API configuration and try again."
    ELSE IF op = "analyzeFoodFromText"
    THEN "Failed to analyze food from text with Gemini AI. Please check your API configuration and try again."
    ELSE IF op = "estimateWeightFromImage"
    THEN "Failed to estimate weight from image. Please enter weight manually."
    ELSE IF op = "searchRenalFriendlyRecipes"
    THEN "Failed to search recipes. Please try again."
    ELSE "Failed to get recipe details. Please try again."

(* A catch block that throws the error it caught *)
CatchRethrowing(op, outcome) == outcome

(* catch (error) { ...; throw new Error(<the operation's message>) } *)
Catch(op, outcome) ==
    IF outcome.kind = "error" THEN Throw(<<FailureMessage(op)>>) ELSE outcome

(* VolumeEstimationService.estimateWeightFromImage around the gateway's
   operation: the estimate with its defaults, or a new error whose message
   ends with the message of the gateway's error *)
VolumeEstimate(outcome) ==
    IF outcome.kind = "error"
    THEN Throw(<<"Weight estimation failed: ">> \o outcome.message)
    ELSE Return([estimationMethod |-> "gemini", estimate |-> outcome.value])

(* How an operation ends for the screen that called it *)
GatewayOutcome(op, response) ==
    LET outcome == Catch(op, TryBody(op, response))
    IN  IF op = "estimateWeightFromImage" THEN VolumeEstimate(outcome)
        ELSE outcome

(* The image file could not be read: estimateWeightFromImage throws inside
   its try block before any request *)
FileFailure(op) ==
    VolumeEstimate(Catch(op, Throw(<<"File not readable">>)))

----------------------------------------------------------------------------
(* GeminiService: the calls.  The user starts an operation (opens a screen,
   presses a button); the operation posts one request; the response
   settles it. *)

(* An operation that posts its request twice *)
InvokeSendingTwice(op) ==
    /\ gcall.pc = "idle"
    /\ gcall.invoked < MaxCalls
    /\ gcall' = [pc |-> "sent", op |-> op, invoked |-> gcall.invoked + 1]
    /\ gres' = [valid |-> FALSE]
    /\ sent' = sent + 2
    /\ UNCHANGED <<svars, hvars, lvars, dvars, fvars, jvars>>

(* The operation runs up to its axios.post *)
Invoke(op) ==
    /\ gcall.pc = "idle"
    /\ gcall.invoked < MaxCalls
    /\ \E fileOk \in BOOLEAN :
         IF op = "estimateWeightFromImage" /\ ~fileOk
         THEN /\ gcall' = [gcall EXCEPT !.invoked = @ + 1]
              /\ gres' = [valid |-> TRUE, op |-> op,
                          response |-> [kind |-> "none"],
                          outcome |-> FileFailure(op)]
              /\ sent' = sent
         ELSE /\ gcall' = [pc |-> "sent", op |-> op,
                           invoked |-> gcall.invoked + 1]
              /\ gres' = [valid |-> FALSE]
              /\ sent' = sent + 1
    /\ UNCHANGED <<svars, hvars, lvars, dvars, fvars, jvars>>

(* The request settles and the operation returns or throws *)
Settle ==
    /\ gcall.pc = "sent"
    /\ \E response \in Responses :
         gres' = [valid |-> TRUE, op |-> gcall.op, response |-> response,
                  outcome |-> GatewayOutcome(gcall.op, response)]
    /\ gcall' = [pc |-> "idle", invoked |-> gcall.invoked]
    /\ UNCHANGED <<sent, svars, hvars, lvars, dvars, fvars, jvars>>

GateInit ==
    /\ GateIdle
    /\ FlowIdle
    /\ JoinIdle
    /\ HistIdle
    /\ LogIdle
    /\ DateIdle
    /\ now = 0
    /\ nextId = 1
    /\ faults = FALSE
    /\ opsLeft = 0

GateNext ==
    \/ \E op \in GatewayOps : Invoke(op)
    \/ Settle

SpecGate == GateInit /\ [][GateNext]_vars

----------------------------------------------------------------------------
(* The screens.  A weight the user typed is held as its text; a number is
   held in tenths of a gram. *)

Grams(n) == n * 10
NaN == << >>

(* The texts a user types into a weight field (digits and one point), and
   into the prompt of the manual add (any text) *)
WeightTexts == {"", "0", "0.5", "1", "150", "5000", "5000.5"}
ManualTexts == {"abc", "0", "0.5", "150", "150g", "5000.5"}

(* parseFloat *)
ParseFloat(text) ==
    IF text \in {"", "abc"} THEN NaN
    ELSE IF text = "0" THEN Number(0)
    ELSE IF text = "0.5" THEN Number(Grams(1) \div 2)
    ELSE IF text = "1" THEN Number(Grams(1))
    ELSE IF text \in {"150", "150g"} THEN Number(Grams(150))
    ELSE IF text = "5000" THEN Number(Grams(5000))
    ELSE Number(Grams(5000) + Grams(1) \div 2)

(* VolumeEstimationService.validateWeight *)
ValidateWeight(weight) ==
    IF weight = NaN \/ weight = Number(0)
    THEN [isValid |-> FALSE, error |-> "Please enter a valid number"]
    ELSE IF weight[1] <= 0
    THEN [isValid |-> FALSE, error |-> "Weight must be greater than 0"]
    ELSE IF weight[1] > Grams(5000)
    THEN [isValid |-> FALSE, error |-> "Weight seems too high (max 5000g)"]
    ELSE IF weight[1] < Grams(1)
    THEN [isValid |-> FALSE, error |-> "Weight seems too low (min 1g)"]
    ELSE [isValid |-> TRUE]

(* TextSearchScreen: parseFloat(weight) || 100, then
   weightValue <= 0 || weightValue > 5000 rejects *)
TextSearchWeight(text) ==
    IF ParseFloat(text) \in {NaN, Number(0)} THEN Number(Grams(100))
    ELSE ParseFloat(text)

TextSearchAccepts(weightValue) ==
    ~(weightValue[1] <= 0 \/ weightValue[1] > Grams(5000))

(* FoodLogScreen: weightInput.match(/^(\d+(?:\.\d+)?)\s*(g|ml)?$/i), then
   isNaN(weight) || weight <= 0 rejects *)
WeightMatch(text) ==
    IF text = "abc" THEN [found |-> FALSE]
    ELSE [found |-> TRUE, number |-> IF text = "150g" THEN "150" ELSE text,
          unit |-> "g"]

ManualAccepts(weight) == ~(weight = NaN \/ weight[1] <= 0)

(* What the endpoint can answer to a screen: the failures, a text without
   JSON, a text whose JSON is a full nutrition record, and a text whose
   JSON object lacks the vitamins and the renal assessment *)
AnalysisResponses ==
    {[kind |-> "networkError"], [kind |-> "httpError"], [kind |-> "noText"],
     [kind |-> "text", text |-> <<"p">>],
     [kind |-> "record", food |-> "Apple", data |-> AppleData],
     [kind |-> "incomplete"]}

OtherResponses ==
    {[kind |-> "networkError"], [kind |-> "noText"],
     [kind |-> "text", text |-> <<"p">>],
     [kind |-> "text", text |-> <<"p", "{", "k", "1", "}">>],
     [kind |-> "text", text |-> <<"[", "{", "}", "]">>]}

(* How an analysis ends for the screen *)
AnalysisOutcome(op, response) ==
    IF response.kind \in {"record", "incomplete"} THEN Return(response)
    ELSE GatewayOutcome(op, response)

(* The state of a screen when the user has entered it with a weight:
   isLoading, error and nutritionData of ResultsScreen (analyzingFood and
   the error alert of FoodLogScreen), and what the handlers did since:
   requests sent, storage writes issued, whether the gateway returned a
   record, how the history save ended, and the ids that the flow's
   saveSearch and addFoodEntry generated *)
Entered(path, input) ==
    [valid |-> TRUE, path |-> path, input |-> input, isLoading |-> FALSE,
     error |-> FALSE, nutritionData |-> <<>>, gotRecord |-> FALSE,
     save |-> "none", requests |-> 0, writes |-> 0,
     historyId |-> EmptyId, entryId |-> EmptyId]

Same ==
    [hist |-> hist, log |-> log, nextId |-> nextId, sent |-> sent,
     gcall |-> gcall, gres |-> gres, flow |-> flow, screen |-> screen]

hghosts == <<htask, saved, pure, lastSaved, lastGet, getsAgree, lastDel,
             hcall>>
lghosts == <<ltask, limits, daily, ctx, lcall>>

(* A step of a handler: one user action less, when it is one *)
Becomes(next, userAction) ==
    /\ hist' = next.hist
    /\ log' = next.log
    /\ nextId' = next.nextId
    /\ sent' = next.sent
    /\ gcall' = next.gcall
    /\ gres' = next.gres
    /\ flow' = next.flow
    /\ screen' = next.screen
    /\ opsLeft' = IF userAction THEN opsLeft - 1 ELSE opsLeft
    /\ UNCHANGED <<now, faults, hghosts, lghosts, dvars, jvars>>

CanAct == flow.pc = "idle" /\ gcall.pc = "idle" /\ opsLeft > 0

FlowEnded == [pc |-> "idle"]

(* The handler's catch block: the error state and its alerts *)
Failed(scr) == [scr EXCEPT !.error = TRUE, !.isLoading = FALSE]

(* A handler that sends the request again when the operation has thrown *)
RetryOnceOnFailure == screen.requests < 2

(* No catch block of a screen calls the operation again *)
RetriesOnFailure == FALSE

(* The operation posts its request *)
Requested(state, scr, op, more) ==
    [state EXCEPT
        !.sent = @ + 1,
        !.gcall = [pc |-> "sent", op |-> op, invoked |-> gcall.invoked + 1],
        !.gres = [valid |-> FALSE],
        !.flow = [pc |-> "analyze", op |-> op] @@ more,
        !.screen = [scr EXCEPT !.isLoading = TRUE, !.error = FALSE,
                               !.requests = @ + 1]]

(* ResultsScreen.analyzeFood up to the request: for an image the file is
   read first, and a file that cannot be read ends the handler in its
   catch block *)
ResultsAnalyzeFood(scr, weight, fileOk) ==
    LET op == IF scr.path = "textSearch" THEN "analyzeFoodFromText"
              ELSE "analyzeFood"
    IN  IF op = "analyzeFood" /\ ~fileOk
        THEN [Same EXCEPT !.screen = Failed(scr)]
        ELSE Requested(Same, scr, op, [weight |-> weight])

(* WeightInputScreen.analyzeFood: the Analyze button *)
WeightInputAnalyzeFood ==
    \E input \in WeightTexts, fileOk \in BOOLEAN :
      LET weightValue == ParseFloat(input)
          validation == ValidateWeight(weightValue)
          scr == Entered("weightInput", input)
      IN  /\ CanAct
          /\ Becomes(IF ~validation.isValid
                     THEN [Same EXCEPT !.screen = scr]
                     ELSE ResultsAnalyzeFood(scr, weightValue[1], fileOk),
                     TRUE)

(* TextSearchScreen.analyzeFood: the Analyze button, with a description *)
TextSearchAnalyzeFood ==
    \E input \in WeightTexts :
      LET weightValue == TextSearchWeight(input)
          scr == Entered("textSearch", input)
      IN  /\ CanAct
          /\ Becomes(IF ~TextSearchAccepts(weightValue)
                     THEN [Same EXCEPT !.screen = scr]
                     ELSE ResultsAnalyzeFood(scr, weightValue[1], TRUE),
                     TRUE)

(* ResultsScreen.retryAnalysis: the Try Again button of the error view *)
RetryAnalysis ==
    \E fileOk \in BOOLEAN :
      /\ CanAct
      /\ screen.valid
      /\ screen.path \in {"weightInput", "textSearch"}
      /\ screen.error
      /\ Becomes(ResultsAnalyzeFood(
                     screen,
                     IF screen.path = "textSearch"
                     THEN TextSearchWeight(screen.input)[1]
                     ELSE ParseFloat(screen.input)[1],
                     fileOk),
                 TRUE)

(* An error of saveToHistory that reaches analyzeFood *)
SaveFailureRethrown(failed) == failed

(* saveSearch catches what the storage throws and saveToHistory catches
   what is thrown in it: nothing reaches analyzeFood *)
SaveFailurePropagates(failed) == FALSE

(* The item saveToHistory and handleAddManualFood save *)
AnalysisItem(record, weight) == Item(record.food, weight, record.data)

(* ResultsScreen.analyzeFood from the response on: the error view, or the
   record is set and saveToHistory runs up to the setItem of saveSearch *)
ResultsSettle ==
    \E response \in AnalysisResponses, readOk \in StorageOutcomes :
      LET outcome == AnalysisOutcome(flow.op, response)
          settled == [Same EXCEPT
                         !.gcall = [pc |-> "idle", invoked |-> gcall.invoked],
                         !.gres = [valid |-> TRUE, op |-> flow.op,
                                   response |-> response,
                                   outcome |-> outcome]]
          shown == [screen EXCEPT !.nutritionData = <<outcome.value>>,
                                  !.gotRecord = TRUE]
          newItem == WithIdAndTimestamp(AnalysisItem(response, flow.weight),
                                        nextId, now)
      IN  /\ flow.pc = "analyze"
          /\ screen.path \in {"weightInput", "textSearch"}
          /\ Becomes(
               IF outcome.kind = "error" /\ RetriesOnFailure
               THEN Requested(settled, screen, flow.op,
                              [weight |-> flow.weight])
               ELSE IF outcome.kind = "error"
               THEN [settled EXCEPT !.flow = FlowEnded,
                                    !.screen = Failed(screen)]
               ELSE IF response.kind = "incomplete"
               THEN [settled EXCEPT
                        !.flow = FlowEnded,
                        !.screen = IF SaveFailurePropagates(TRUE)
                                   THEN Failed(shown)
                                   ELSE [shown EXCEPT !.isLoading = FALSE,
                                                      !.save = "failed"]]
               ELSE [settled EXCEPT
                        !.nextId = @ + 1,
                        !.flow = [pc |-> "saveWrite",
                                  pending |-> LimitedHistory(
                                      newItem, ReadHistory(readOk))],
                        !.screen = [shown EXCEPT !.writes = @ + 1]],
               FALSE)

(* saveSearch: setItem settles; analyzeFood ends in its finally block *)
ResultsSaveWrite ==
    \E ok \in StorageOutcomes :
      /\ flow.pc = "saveWrite"
      /\ Becomes([Same EXCEPT
                     !.hist = IF ok THEN SetItem(hist, flow.pending)
                             ELSE hist,
                     !.flow = FlowEnded,
                     !.screen = IF SaveFailurePropagates(~ok)
                                THEN Failed(screen)
                                ELSE [screen EXCEPT
                                         !.isLoading = FALSE,
                                         !.save = IF ok THEN "ok"
                                                  ELSE "failed"]],
                 FALSE)

(* FoodLogScreen.handleAddManualFood up to the request *)
HandleAddManualFood ==
    \E input \in ManualTexts :
      LET weightMatch == WeightMatch(input)
          weight == ParseFloat(weightMatch.number)
          scr == Entered("manualAdd", input)
      IN  /\ CanAct
          /\ Becomes(IF ~weightMatch.found \/ ~ManualAccepts(weight)
                     THEN [Same EXCEPT !.screen = scr]
                     ELSE Requested(Same, scr, "analyzeFoodFromText",
                                    [weight |-> weight[1]]),
                     TRUE)

(* handleAddManualFood from the response on, up to the setItem of
   saveSearch; a record without the renal assessment throws when its
   warnings are read *)
ManualSettle ==
    \E response \in AnalysisResponses, readOk \in StorageOutcomes :
      LET outcome == AnalysisOutcome(flow.op, response)
          settled == [Same EXCEPT
                         !.gcall = [pc |-> "idle", invoked |-> gcall.invoked],
                         !.gres = [valid |-> TRUE, op |-> flow.op,
                                   response |-> response,
                                   outcome |-> outcome]]
          newItem == WithIdAndTimestamp(AnalysisItem(response, flow.weight),
                                        nextId, now)
      IN  /\ flow.pc = "analyze"
          /\ screen.path = "manualAdd"
          /\ Becomes(
               IF outcome.kind = "error" /\ RetriesOnFailure
               THEN Requested(settled, screen, flow.op,
                              [weight |-> flow.weight])
               ELSE IF outcome.kind = "error" \/ response.kind = "incomplete"
               THEN [settled EXCEPT !.flow = FlowEnded,
                                    !.screen = Failed(screen)]
               ELSE [settled EXCEPT
                        !.nextId = @ + 1,
                        !.flow = [pc |-> "manualSaveWrite",
                                  record |-> response,
                                  weight |-> flow.weight,
                                  pending |-> LimitedHistory(
                                      newItem, ReadHistory(readOk))],
                        !.screen = [screen EXCEPT !.gotRecord = TRUE,
                                                  !.writes = @ + 1,
                                                  !.historyId =
                                                      Number(nextId)]],
               FALSE)

(* The entry handleAddManualFood adds, without id and timestamp *)
ManualFood(record, weight) ==
    [foodName |-> record.food, weight |-> weight,
     calories |-> Number(record.data.macros.carbs * 4),
     potassium |-> record.data.minerals["potassium"],
     phosphorus |-> record.data.minerals["phosphorus"],
     sodium |-> record.data.minerals["sodium"]]

(* saveSearch: setItem settles; then addFoodEntry up to its setItem *)
ManualSaveWrite ==
    \E ok \in StorageOutcomes, readOk \in StorageOutcomes :
      LET newEntry == NewLogEntry(ManualFood(flow.record, flow.weight),
                                  ToISODateString(now), nextId, now)
      IN  /\ flow.pc = "manualSaveWrite"
          /\ Becomes([Same EXCEPT
                         !.hist = IF ok THEN SetItem(hist, flow.pending)
                             ELSE hist,
                         !.nextId = @ + 1,
                         !.flow = [pc |-> "manualAddWrite",
                                   record |-> flow.record,
                                   pending |-> Append(GetAllFoodLog(readOk),
                                                      newEntry)],
                         !.screen = [screen EXCEPT
                                        !.save = IF ok THEN "ok"
                                                 ELSE "failed",
                                        !.writes = @ + 1,
                                        !.entryId = Number(nextId)]],
                     FALSE)

(* allEntries.map((entry) => entry.id === id ? {...entry, ...updates}
   : entry) with updates = {nutritionDataId} *)
WithBackReference(allEntries, id, nutritionDataId) ==
    [i \in 1..Len(allEntries) |->
        IF allEntries[i].id = id
        THEN [allEntries[i] EXCEPT !.nutritionDataId = nutritionDataId]
        ELSE allEntries[i]]

(* addFoodEntry: setItem settles, a rejected write is thrown on to the
   handler's catch block; then getAllFoodLog, getSearchHistory and, when
   the newest history entry has the food's name, updateFoodEntry up to its
   setItem.  allEntries[allEntries.length - 1] of an empty list is
   undefined and reading its id throws. *)
ManualAddWrite ==
    \E ok \in StorageOutcomes, logOk \in StorageOutcomes,
       histOk \in StorageOutcomes, readOk \in StorageOutcomes :
      LET written == SetItem(log, flow.pending)
          allEntries == IF logOk THEN written ELSE <<>>
          historyItems == ReadHistory(histOk)
          attach == /\ historyItems # <<>>
                    /\ historyItems[1].foodName = flow.record.food
          done == [Same EXCEPT !.log = written, !.flow = FlowEnded,
                               !.screen = [screen EXCEPT
                                              !.isLoading = FALSE]]
      IN  /\ flow.pc = "manualAddWrite"
          /\ Becomes(
               IF ~ok
               THEN [Same EXCEPT !.flow = FlowEnded,
                                 !.screen = Failed(screen)]
               ELSE IF ~attach THEN done
               ELSE IF allEntries = <<>>
               THEN [done EXCEPT !.screen = Failed(screen)]
               ELSE [done EXCEPT
                        !.flow = [pc |-> "manualUpdateWrite",
                                  pending |-> WithBackReference(
                                      IF readOk THEN written ELSE <<>>,
                                      allEntries[Len(allEntries)].id,
                                      Number(historyItems[1].id))],
                        !.screen = [screen EXCEPT !.writes = @ + 1]],
               FALSE)

(* updateFoodEntry: setItem settles, a rejected write is thrown on *)
ManualUpdateWrite ==
    \E ok \in StorageOutcomes :
      /\ flow.pc = "manualUpdateWrite"
      /\ Becomes([Same EXCEPT
                     !.log = IF ok THEN SetItem(log, flow.pending)
                            ELSE log,
                     !.flow = FlowEnded,
                     !.screen = IF ok
                                THEN [screen EXCEPT !.isLoading = FALSE]
                                ELSE Failed(screen)],
                 FALSE)

(* The screens that only ask the gateway: WeightInputScreen.estimateWeight
   (on entering the screen, on switching the automatic weight on, and by
   Try Again), RecipeSearchScreen.searchRecipes (the Search button) and
   RecipeDetailsScreen.fetchRecipeDetails (on opening a recipe, and by
   Retry) *)
OtherOps == {"estimateWeightFromImage", "searchRenalFriendlyRecipes",
             "getRecipeDetails"}

AskGateway ==
    \E op \in OtherOps, fileOk \in BOOLEAN :
      LET scr == Entered(op, "")
      IN  /\ CanAct
          /\ Becomes(IF op = "estimateWeightFromImage" /\ ~fileOk
                     THEN [Same EXCEPT
                              !.gcall = [gcall EXCEPT !.invoked = @ + 1],
                              !.gres = [valid |-> TRUE, op |-> op,
                                        response |-> [kind |-> "none"],
                                        outcome |-> FileFailure(op)],
                              !.screen = Failed(scr)]
                     ELSE Requested(Same, scr, op, [weight |-> 0]),
                     TRUE)

(* The screen's handler from the response on *)
AskSettle ==
    \E response \in OtherResponses :
      LET outcome == GatewayOutcome(flow.op, response)
          settled == [Same EXCEPT
                         !.gcall = [pc |-> "idle", invoked |-> gcall.invoked],
                         !.gres = [valid |-> TRUE, op |-> flow.op,
                                   response |-> response,
                                   outcome |-> outcome]]
      IN  /\ flow.pc = "analyze"
          /\ screen.path \in OtherOps
          /\ Becomes(
               IF outcome.kind = "error" /\ RetriesOnFailure
               THEN Requested(settled, screen, flow.op, [weight |-> 0])
               ELSE IF outcome.kind = "error"
               THEN [settled EXCEPT !.flow = FlowEnded,
                                    !.screen = Failed(screen)]
               ELSE [settled EXCEPT
                        !.flow = FlowEnded,
                        !.screen = [screen EXCEPT !.isLoading = FALSE,
                                                  !.gotRecord = TRUE]],
               FALSE)

FlowInit ==
    /\ GateIdle
    /\ FlowIdle
    /\ JoinIdle
    /\ HistIdle
    /\ LogIdle
    /\ DateIdle
    /\ now = LogStart
    /\ nextId = 1
    /\ faults \in BOOLEAN
    /\ opsLeft = MaxUserActions

FlowNext ==
    \/ WeightInputAnalyzeFood
    \/ TextSearchAnalyzeFood
    \/ RetryAnalysis
    \/ ResultsSettle
    \/ ResultsSaveWrite
    \/ HandleAddManualFood
    \/ ManualSettle
    \/ ManualSaveWrite
    \/ ManualAddWrite
    \/ ManualUpdateWrite
    \/ AskGateway
    \/ AskSettle

SpecFlow == FlowInit /\ [][FlowNext]_vars

(* The daily limits beside the requests of the screens *)
LimitsNext ==
    \/ SetDailyLimits
    \/ \E t \in Tasks : GetTodayNutritionContext(t)
    \/ GetDailyLimitsCall
    \/ ChangeReturned
    \/ AskGateway
    \/ AskSettle

SpecLimits == LogInit /\ [][LimitsNext]_vars

----------------------------------------------------------------------------
(* The manual add beside the history screen: the entries the manual add
   links to the history, while the user deletes from the history or clears
   it, and presses entries of the food log *)

(* handleEntryPress on an entry of the persisted log *)
HandleEntryPress ==
    \E i \in 1..Len(log), ok \in StorageOutcomes :
      /\ opsLeft > 0
      /\ opsLeft' = opsLeft - 1
      /\ join' = [valid |-> TRUE, entry |-> log[i], of |-> hist,
                  readOk |-> ok \/ NutritionDataId(log[i]) = EmptyId,
                  result |-> GetFullNutritionData(log[i], ok)]
      /\ UNCHANGED <<now, nextId, faults, hvars, lvars, dvars, gvars, fvars,
                     held, made, gone>>

RefsInit ==
    /\ GateIdle
    /\ FlowIdle
    /\ JoinIdle
    /\ HistIdle
    /\ LogIdle
    /\ DateIdle
    /\ now = LogStart
    /\ nextId = 1
    /\ faults \in BOOLEAN
    /\ opsLeft = MaxRefOps

RefsNext ==
    \/ HandleAddManualFood
    \/ ManualSettle
    \/ ManualSaveWrite
    \/ ManualAddWrite
    \/ ManualUpdateWrite
    \/ \E t \in Tasks : DeleteSearchItemRead(t)
    \/ \E t \in Tasks : DeleteSearchItemWrite(t)
    \/ \E t \in Tasks : ClearAllHistory(t)
    \/ HandleEntryPress

SpecRefs == RefsInit /\ [][RefsNext]_vars

----------------------------------------------------------------------------
(* Properties of the history store *)

HistIds == [i \in 1..Len(hist) |-> hist[i].id]

IsLegacy(e) == e.nutritionData = Absent /\ e.summary # Absent

HasLegacy(list) == \E i \in 1..Len(list) : IsLegacy(list[i])

(* C1: after more than 50 saveSearch calls that did not overlap and met no
   storage failure, the persisted history holds exactly 50 entries, they are
   the 50 entries saved last, and they are in order of saving, newest
   first; so each save beyond the cap dropped exactly the oldest entry. *)
C1_CapKeepsNewestFifty ==
    (pure /\ AllIdle /\ Len(saved) > HISTORY_CAP) =>
        /\ Len(hist) = HISTORY_CAP
        /\ HistIds = SubSeq(saved, 1, HISTORY_CAP)
        /\ IsSortedDesc(hist)

C1_Witness ==
    pure /\ AllIdle /\ Len(saved) = HISTORY_CAP + 2 /\ now > HISTORY_CAP

(* C2: in every reachable state, whatever saveSearch, deleteSearchItem and
   clearAllHistory calls ran and however their steps interleaved, the list
   persisted under the history key has at most 50 entries and is in
   descending order of timestamp. *)
C2_CappedAndSorted ==
    Len(hist) <= HISTORY_CAP /\ IsSortedDesc(hist)

C2_Witness ==
    /\ Len(hist) = HISTORY_CAP
    /\ lastDel.valid /\ ~lastDel.alone
    /\ lastSaved.valid
    /\ hist[1].timestamp > hist[2].timestamp

(* C3: a getSearchHistory call that follows a successful saveSearch(item),
   no write in between, returns an entry with the id and the timestamp that
   the save assigned and with the nutritionData, foodName, weight and
   calories of item; and for every persisted entry of the legacy shape the
   call returns an entry whose nutritionData has the macros of the entry's
   summary and 0 for every vitamin and every mineral. *)
C3_RoundTrip ==
    lastGet.valid =>
        /\ lastSaved.valid =>
              \E j \in 1..Len(lastGet.list) :
                 LET e == lastGet.list[j] IN
                 /\ e.id = lastSaved.id
                 /\ e.timestamp = lastSaved.timestamp
                 /\ e.nutritionData = lastSaved.item.nutritionData
                 /\ e.foodName = lastSaved.item.foodName
                 /\ e.weight = lastSaved.item.weight
                 /\ e.calories = lastSaved.item.calories
        /\ \A i \in 1..Len(hist) :
              IsLegacy(hist[i]) =>
                 \E j \in 1..Len(lastGet.list) :
                    LET e == lastGet.list[j] IN
                    /\ e.id = hist[i].id
                    /\ e.timestamp = hist[i].timestamp
                    /\ e.nutritionData.macros = hist[i].summary.macros
                    /\ \A v \in VitaminNames : e.nutritionData.vitamins[v] = 0
                    /\ \A m \in MineralNames : e.nutritionData.minerals[m] = 0

C3_Witness ==
    lastGet.valid /\ lastSaved.valid /\ Len(hist) = HISTORY_CAP

(* C4: two consecutive successful getSearchHistory calls with no write in
   between return equal lists, also for a persisted list that holds
   legacy-shaped entries. *)
C4_GetAllIdempotent == getsAgree

C4_Witness ==
    lastGet.valid /\ lastGet.count = 2 /\ HasLegacy(hist) /\ Len(hist) > 1

(* C5: deleting an id that is not in the store is a no-op: a
   deleteSearchItem call that overlapped no other call and met no storage
   failure, for an id that is not in the persisted list, leaves the
   persisted list as it was, and does not throw. *)
C5_DeleteAbsentIsNoOp ==
    (lastDel.valid /\ lastDel.absent /\ lastDel.alone /\ lastDel.noFailure) =>
        (lastDel.same /\ ~lastDel.threw)

----------------------------------------------------------------------------
(* Properties of the date helpers *)

(* The label for a date that lies n local calendar days before today *)
LabelForDaysBack(n, date) ==
    IF n = 0 THEN [text |-> "Today"]
    ELSE IF n = 1 THEN [text |-> "Yesterday"]
    ELSE IF n <= 7 THEN [text |-> "days ago", n |-> n]
    ELSE [text |-> "date", date |-> date]

(* C8: formatDate labels a date by the number of local calendar days
   between it and today: 0 gives "Today", 1 "Yesterday", 2 to 7 "N days
   ago", 8 or more the short date; at every time of day, and also when the
   zone changes its offset between the two dates. *)
C8_FormatDateByCalendarDays ==
    (label.valid /\ entry.kind = "none") =>
        label.result =
            LabelForDaysBack(LocalDay(now) - DaysFromDate(label.date), label.date)

(* C9: the date computed for a new log entry is the local calendar date:
   for an entry logged for today it is the local date of now, and
   formatDate of it, called at once, gives "Today"; for an entry logged
   for yesterday it is the local date of the day before. *)
C9_EntryDateIsLocalDate ==
    /\ entry.kind = "today" =>
          /\ entry.date = DateFromDays(LocalDay(now))
          /\ FormatDate(entry.date, now) = [text |-> "Today"]
    /\ entry.kind = "yesterday" =>
          entry.date = DateFromDays(LocalDay(now) - 1)

----------------------------------------------------------------------------
(* Properties of the food log *)

(* The sum of Val over the entries, taken in no particular order *)
SumOf(entries, Val(_)) ==
    LET RECURSIVE Sum(_)
        Sum(I) == IF I = {} THEN 0
                  ELSE LET i == CHOOSE i \in I : TRUE
                       IN  Val(entries[i]) + Sum(I \ {i})
    IN  Sum(1..Len(entries))

Permuted(list, p) == [i \in 1..Len(list) |-> list[p[i]]]

(* C6: the totals of getDailyFoodLogs do not depend on the order of
   insertion: for the persisted entries in any other order the call returns
   the same dates in the same sequence and, for each date, the same totals
   of weight, calories, potassium, phosphorus and sodium. *)
C6_AggregatesOrderIndependent ==
    (daily.valid /\ daily.readOk) =>
        \A p \in Permutations(1..Len(daily.of)) :
           LET other == GetDailyFoodLogs(Permuted(daily.of, p))
           IN  /\ Len(other) = Len(daily.buckets)
               /\ \A b \in 1..Len(other) :
                     /\ other[b].date = daily.buckets[b].date
                     /\ other[b].totalNutrients =
                            daily.buckets[b].totalNutrients

C6_Witness ==
    /\ daily.valid /\ daily.readOk
    /\ Len(daily.buckets) >= 2
    /\ Len(daily.of) >= 3
    /\ daily.of[1].date # daily.of[Len(daily.of)].date
    /\ DaysFromDate(daily.of[1].date) < DaysFromDate(daily.of[Len(daily.of)].date)

(* C7: getDailyFoodLogs partitions the persisted log: every entry is in
   exactly one bucket, once, and that bucket has the entry's date; a bucket
   holds nothing else and is not empty; its totals are the sums of weight,
   calories (undefined counted as 0), potassium, phosphorus and sodium over
   its entries; the buckets come in strictly descending order of date. *)
C7_BucketsPartitionAndSum ==
    (daily.valid /\ daily.readOk) =>
        LET of == daily.of
            bs == daily.buckets
            Places(e) == {<<b, j>> \in (1..Len(bs)) \X (1..Len(of)) :
                             j <= Len(bs[b].entries) /\ bs[b].entries[j] = e}
        IN  /\ \A i \in 1..Len(of) :
                  /\ Cardinality(Places(of[i])) = 1
                  /\ \A pl \in Places(of[i]) : bs[pl[1]].date = of[i].date
            /\ \A b \in 1..Len(bs) :
                  LET es == bs[b].entries
                      t == bs[b].totalNutrients
                  IN  /\ Len(es) > 0
                      /\ \A j \in 1..Len(es) : \E i \in 1..Len(of) : of[i] = es[j]
                      /\ t.weight = SumOf(es, LAMBDA e : e.weight)
                      /\ t.calories = SumOf(es, CaloriesOrZero)
                      /\ t.potassium = SumOf(es, LAMBDA e : e.potassium)
                      /\ t.phosphorus = SumOf(es, LAMBDA e : e.phosphorus)
                      /\ t.sodium = SumOf(es, LAMBDA e : e.sodium)
            /\ \A b \in 1..(Len(bs) - 1) :
                  DaysFromDate(bs[b].date) > DaysFromDate(bs[b + 1].date)

C7_Witness ==
    /\ daily.valid /\ daily.readOk
    /\ Len(daily.buckets) >= 2
    /\ \E b \in 1..Len(daily.buckets) :
          LET es == daily.buckets[b].entries
          IN  /\ Len(es) >= 2
              /\ \E j \in 1..Len(es) : es[j].calories = Undefined
              /\ \E j \in 1..Len(es) : es[j].calories # Undefined

Nutrients == {"calories", "potassium", "phosphorus", "sodium"}

NutrientOf(e, k) ==
    IF k = "calories" THEN CaloriesOrZero(e)
    ELSE IF k = "potassium" THEN e.potassium
    ELSE IF k = "phosphorus" THEN e.phosphorus
    ELSE e.sodium

(* C10: in the nutrition context, for each of calories, potassium,
   phosphorus and sodium, currentIntake is the sum of that field over the
   log entries dated today and remaining = max(0, limit - currentIntake):
   remaining is never negative, never above the limit, and 0 exactly when
   the intake has reached the limit; an intake of 1800 against a limit of
   2000 leaves 200. *)
C10_RemainingIsFlooredDifference ==
    (ctx.valid /\ ctx.readOk) =>
        \A k \in Nutrients :
           LET dated == SelectSeq(ctx.of, LAMBDA e : e.date = ctx.today)
               intake == SumOf(dated, LAMBDA e : NutrientOf(e, k))
               limit == ctx.recommendedLimits[k]
               rest == ctx.remaining[k]
           IN  /\ ctx.currentIntake[k] = intake
               /\ rest = (IF limit - intake > 0 THEN limit - intake ELSE 0)
               /\ rest >= 0
               /\ rest <= limit
               /\ (rest = 0) <=> (intake >= limit)
               /\ (intake = 1800 /\ limit = 2000) => rest = 200

C10_Witness ==
    /\ ctx.valid /\ ctx.readOk
    /\ ctx.currentIntake.potassium = 1800
    /\ ctx.recommendedLimits.potassium = 2000
    /\ ctx.remaining.potassium = 200
    /\ ctx.remaining.sodium = 0
    /\ ctx.remaining.phosphorus = 0
    /\ Len(ctx.of) > 1

----------------------------------------------------------------------------
(* Properties of the gateway *)

(* JSON.stringify: the text of a value *)
RECURSIVE Stringify(_)
Stringify(v) ==
    IF v.t = "num" THEN <<"1">>
    ELSE IF v.t = "obj"
    THEN <<"{">> \o (IF v.m = <<>> THEN <<>> ELSE <<"k">> \o Stringify(v.m[1]))
         \o <<"}">>
    ELSE <<"[">> \o (IF v.e = <<>> THEN <<>> ELSE Stringify(v.e[1]))
         \o <<"]">>

Leaves == {JNum, JObj(<<>>), JArr(<<>>)}
Nested == Leaves \cup {JObj(<<v>>) : v \in Leaves}
                 \cup {JArr(<<v>>) : v \in Leaves}

(* The objects (for the recipe search: the arrays) a response can embed *)
Embedded(op) ==
    IF op \in ObjectOps
    THEN {JObj(<<>>)} \cup {JObj(<<v>>) : v \in Nested}
    ELSE {JArr(<<>>)} \cup {JArr(<<v>>) : v \in Nested}

OpenOf(op) == IF op \in ObjectOps THEN "{" ELSE "["
CloseOf(op) == IF op \in ObjectOps THEN "}" ELSE "]"

(* text is prose, the JSON text of value, prose, and the prose holds
   neither the opening nor the closing character of the operation *)
Embeds(text, op, value) ==
    \E i \in 1..Len(text), j \in 1..Len(text) :
       /\ i <= j
       /\ SubSeq(text, i, j) = Stringify(value)
       /\ \A n \in (1..(i - 1)) \cup ((j + 1)..Len(text)) :
              text[n] \notin {OpenOf(op), CloseOf(op)}

(* The operations that return the parsed value as it is *)
ParsingOps == GatewayOps \ {"estimateWeightFromImage"}

(* C11: analyzeFood, analyzeFoodFromText and getRecipeDetails parse the
   part of the response text from its first "{" to its last "}"
   (searchRenalFriendlyRecipes: from the first "[" to the last "]"); a
   response that is prose, one well-formed object (array), prose, with no
   brace (bracket) in the prose, makes the operation return exactly the
   embedded value. *)
C11_ExtractsEmbeddedJson ==
    (gres.valid /\ gres.response.kind = "text" /\ gres.op \in ParsingOps) =>
        LET text == gres.response.text
            op == gres.op
            jsonMatch == JsonMatch(text, op)
        IN  /\ jsonMatch.found <=>
                   \E i \in 1..Len(text), j \in 1..Len(text) :
                      i < j /\ text[i] = OpenOf(op) /\ text[j] = CloseOf(op)
            /\ jsonMatch.found =>
                   \E i \in 1..Len(text), j \in 1..Len(text) :
                      /\ jsonMatch.span = SubSeq(text, i, j)
                      /\ text[i] = OpenOf(op) /\ text[j] = CloseOf(op)
                      /\ \A n \in 1..(i - 1) : text[n] # OpenOf(op)
                      /\ \A n \in (j + 1)..Len(text) : text[n] # CloseOf(op)
            /\ \A value \in Embedded(op) :
                   Embeds(text, op, value) => gres.outcome = Return(value)

C11_Witness ==
    /\ gres.valid
    /\ gres.op = "analyzeFood"
    /\ gres.response = [kind |-> "text",
                        text |-> <<"p", "{", "}", "p">>]
    /\ gres.outcome = Return(JObj(<<>>))

Range(seq) == {seq[i] : i \in 1..Len(seq)}

(* C12: when the response text holds no "{" (no "[" for the recipe search)
   or the extracted span is not valid JSON, the operation throws to its
   caller the error "Invalid response format from Gemini". *)
C12_InvalidFormatError ==
    (gres.valid /\ gres.response.kind = "text" /\ gres.response.text # <<>>) =>
        LET text == gres.response.text
            jsonMatch == JsonMatch(text, gres.op)
        IN  (\/ OpenOf(gres.op) \notin Range(text)
             \/ jsonMatch.found /\ ~JsonParse(jsonMatch.span).ok)
            => gres.outcome = Throw(<<"Invalid response format from Gemini">>)

(* The request failed, or its response carries no text *)
TransportFailure(response) ==
    \/ response.kind \in {"networkError", "httpError", "malformed", "noText"}
    \/ response.kind = "text" /\ response.text = <<>>

(* The message the screen gets from each operation when it fails *)
UserFacingMessage(op) ==
    IF op = "estimateWeightFromImage"
    THEN <<"Weight estimation failed: ", FailureMessage(op)>>
    ELSE <<FailureMessage(op)>>

(* C13: a network error, a response that is not 2xx and a response without
   candidate text reach the caller as one thrown error whose message is the
   fixed message of the operation; the message holds no text of the error
   underneath, and nothing is returned. *)
C13_FailureIsOneFixedMessage ==
    (gres.valid /\ TransportFailure(gres.response)) =>
        /\ gres.outcome = Throw(UserFacingMessage(gres.op))
        /\ Range(gres.outcome.message) \cap CauseTexts = {}
        /\ DOMAIN gres.outcome = {"kind", "message"}

C13_Witness ==
    /\ gres.valid
    /\ gres.op = "estimateWeightFromImage"
    /\ gres.response.kind = "httpError"
    /\ gres.outcome.kind = "error"

----------------------------------------------------------------------------
(* Failures of the storage *)

(* C14: no SearchHistoryService call throws when AsyncStorage fails: a
   saveSearch, deleteSearchItem or clearAllHistory with a failed storage
   call ends leaving the stored list as it was, getSearchHistory returns
   the empty list, getSearchStats returns zero counts, and each raises an
   alert. *)
C14_HistoryFailuresAreSwallowed ==
    (hcall.valid /\ hcall.failed /\ hcall.alone) =>
        /\ ~hcall.threw
        /\ hcall.alerted
        /\ hcall.op \in {"saveSearch", "deleteSearchItem", "clearAllHistory"}
              => hcall.unchanged
        /\ hcall.op \in {"getSearchHistory", "getSearchStats"} => hcall.empty

(* C15: no FoodLogService call lets a storage failure out as an exception:
   a failed read makes getDailyFoodLogs return the empty list, and a call
   of addFoodEntry, deleteFoodEntry or clearAllFoodLog whose write fails
   ends without throwing. *)
C15_LogFailuresAreSwallowed ==
    /\ (daily.valid /\ ~daily.readOk) => daily.buckets = <<>>
    /\ lcall.valid => ~lcall.threw

----------------------------------------------------------------------------
(* Properties of the screens *)

ResultsPaths == {"weightInput", "textSearch"}

(* C16: in the results flow, once the gateway has returned a record the
   handler ends with that record shown, no error set and loading cleared,
   whether the history save succeeds, fails in the storage or fails while
   the item is built. *)
C16_SaveFailureKeepsAnalysis ==
    (screen.valid /\ screen.path \in ResultsPaths /\ screen.gotRecord
     /\ flow.pc = "idle") =>
        /\ screen.nutritionData = <<gres.outcome.value>>
        /\ ~screen.error
        /\ ~screen.isLoading

C16_Witness ==
    /\ screen.valid
    /\ screen.path = "weightInput"
    /\ screen.gotRecord
    /\ flow.pc = "idle"
    /\ screen.save = "failed"
    /\ gres.response.kind = "record"
    /\ hist = <<>>
    /\ screen.nutritionData # <<>>

(* The weight the user typed, as a number *)
EnteredWeight ==
    IF screen.path = "manualAdd"
    THEN IF WeightMatch(screen.input).found
         THEN ParseFloat(WeightMatch(screen.input).number) ELSE NaN
    ELSE ParseFloat(screen.input)

(* C17: on the weight-input screen, the text-search screen and the manual
   add, a typed weight that validateWeight rejects leads to no request to
   the gateway and to no write of either store. *)
C17_InvalidWeightStopsEarly ==
    (screen.valid /\ screen.path \in ResultsPaths \cup {"manualAdd"}
     /\ screen.input # "" /\ ~ValidateWeight(EnteredWeight).isValid) =>
        screen.requests = 0 /\ screen.writes = 0

(* C19: a gateway operation posts at most one request, and each operation
   is started by an action of the user: after a failure nothing is sent
   until the user acts again. *)
C19_NoAutomaticRetry ==
    /\ sent <= gcall.invoked
    /\ gcall.invoked <= MaxUserActions - opsLeft
    /\ (screen.valid /\ screen.error /\ flow.pc = "idle")
          => gcall.pc = "idle"

C19_Witness ==
    /\ screen.valid
    /\ screen.path = "weightInput"
    /\ screen.error
    /\ screen.requests = 2
    /\ sent = 2
    /\ gres.valid
    /\ gres.outcome.kind = "error"
    /\ flow.pc = "idle"

----------------------------------------------------------------------------
(* Properties of overlapping saves *)

(* The write of a saveSearch lands: the entries stored since the call read
   the list are gone and the call's own entry is stored *)
SaveOverwrites(t) ==
    (htask[t].pc = "saveWrite" /\ htask'[t].pc = "idle" /\ hist' # hist) =>
        /\ htask[t].id \in Ids(hist')
        /\ \A id \in Ids(hist) \ Ids(htask[t].seen) : id \notin Ids(hist')

(* The write of an addFoodEntry lands: likewise *)
AddOverwrites(t) ==
    (ltask[t].pc = "addWrite" /\ ltask'[t].pc = "idle" /\ log' # log) =>
        /\ ltask[t].id \in Ids(log')
        /\ \A id \in Ids(log) \ Ids(ltask[t].seen) : id \notin Ids(log')

(* C18: two saveSearch calls, or two addFoodEntry calls, that are in flight
   together can lose an update: when the second call has read the list
   before the write of the first landed, the write of the second removes
   the first call's entry, and of the two new entries only the second one
   stays stored although both calls succeeded. *)
C18_OverlappingSavesLoseAnUpdate ==
    [][\A t \in Tasks : SaveOverwrites(t) /\ AddOverwrites(t)]_vars

(* Two saveSearch and two addFoodEntry calls ran with no storage failure
   and each store holds one entry more than before *)
C18_Witness ==
    /\ ~faults
    /\ opsLeft = 0
    /\ \A t \in Tasks : htask[t].pc = "idle" /\ ltask[t].pc = "idle"
    /\ nextId = 5
    /\ Len(saved) = 2
    /\ Len(hist) = 1
    /\ Len(log) = 1
    /\ ~lcall.valid
    /\ hcall.valid /\ ~hcall.failed /\ ~hcall.alone /\ ~hcall.unchanged

----------------------------------------------------------------------------
(* Properties of getFullNutritionData *)

(* The history entries with the id, as getSearchHistory presents them *)
Referenced(stored, ref) ==
    SelectSeq(GetSearchHistory(stored), LAMBDA item : <<item.id>> = ref)

(* C20: getFullNutritionData joins the log with the history.  For an entry
   with a back-reference to an entry the history holds, it returns that
   history entry's nutrition data, whether or not the log entry has an
   inline snapshot; for an entry without a back-reference it returns the
   inline snapshot if the entry has one and null otherwise. *)
C20_JoinsLogWithHistory ==
    join.valid =>
        LET ref == NutritionDataId(join.entry)
            referenced == Referenced(join.of, ref)
        IN  /\ (ref # EmptyId /\ referenced # <<>> /\ join.readOk) =>
                   join.result = <<referenced[1].nutritionData>>
            /\ ref = EmptyId =>
                   join.result = IF "customNutritionData" \in DOMAIN join.entry
                                 THEN join.entry.customNutritionData
                                 ELSE Null

(* An entry with an inline snapshot and the id of a stored history entry
   was pressed and the history entry's data came back *)
C20_Witness ==
    /\ join.valid
    /\ join.readOk
    /\ NutritionDataId(join.entry) # EmptyId
    /\ Referenced(join.of, NutritionDataId(join.entry)) # <<>>
    /\ CustomNutritionData(join.entry) = <<CustomData>>
    /\ join.result # <<CustomData>>
    /\ join.result # Null

----------------------------------------------------------------------------
(* Properties of getSearchStats *)

(* How many entries of the list are younger than the age, at the instant *)
YoungerThan(list, age, instant) ==
    Cardinality({i \in 1..Len(list) : instant - list[i].timestamp < age})

(* C21: getSearchStats that read the list counts all stored entries, those
   less than 7 * 24 hours old and those less than 30 * 24 hours old; an
   entry exactly 7 * 24 (30 * 24) hours old is outside the week (month),
   and thisWeek <= thisMonth <= totalSearches. *)
C21_StatsWindows ==
    (hcall.valid /\ hcall.op = "getSearchStats" /\ ~hcall.failed) =>
        /\ hcall.stats.totalSearches = Len(hcall.of)
        /\ hcall.stats.thisWeek =
               YoungerThan(hcall.of, 7 * 24 * 60 * 60, hcall.at)
        /\ hcall.stats.thisMonth =
               YoungerThan(hcall.of, 30 * 24 * 60 * 60, hcall.at)
        /\ hcall.stats.thisWeek <= hcall.stats.thisMonth
        /\ hcall.stats.thisMonth <= hcall.stats.totalSearches

(* The list held an entry exactly a week old and one exactly a month old,
   and neither was counted in its window *)
C21_Witness ==
    /\ hcall.valid
    /\ hcall.op = "getSearchStats"
    /\ ~hcall.failed
    /\ \E i \in 1..Len(hcall.of) :
          hcall.of[i].timestamp = hcall.at - OneWeek
    /\ \E i \in 1..Len(hcall.of) :
          hcall.of[i].timestamp = hcall.at - OneMonth
    /\ hcall.stats = [totalSearches |-> 4, thisWeek |-> 1, thisMonth |-> 2]

----------------------------------------------------------------------------
(* Properties of the daily limits *)

(* The step changes the limits as an assignment of some of them does, and
   it is no step of a gateway request, of the context or of a caller's
   object *)
LimitsChangeBySetOnly ==
    limits' # limits =>
        /\ \E partial \in PartialLimits :
              \A k \in DOMAIN limits :
                  limits'[k] = IF k \in DOMAIN partial THEN partial[k]
                               ELSE limits[k]
        /\ UNCHANGED <<gvars, fvars, ctx, held>>

(* The step computes a context from the limits as they are *)
ContextUsesLimits ==
    ctx' # ctx =>
        /\ ctx'.recommendedLimits = limits
        /\ \A k \in DOMAIN limits :
              ctx'.remaining[k] \in {0, limits[k] - ctx'.currentIntake[k]}

(* C22: the daily limits change only by setDailyLimits, which sets the
   nutrients its argument names and leaves the others; a context computed
   later has the limits as they then are; a caller that changes the object
   getDailyLimits returned does not change the limits; no request of the
   gateway changes them. *)
C22_LimitsChangeOnlyBySet ==
    [][LimitsChangeBySetOnly /\ ContextUsesLimits]_vars

(* Limits were set, a context was computed from them, a caller changed the
   object it got, and a gateway operation ended *)
C22_Witness ==
    /\ limits # DefaultLimits
    /\ ctx.valid
    /\ ctx.recommendedLimits = limits
    /\ held.valid
    /\ held.changed
    /\ held.value # limits
    /\ gres.valid
    /\ gcall.pc = "idle"

----------------------------------------------------------------------------
(* Properties of the migration *)

(* The stored entry with the id has the legacy shape *)
StoredLegacy(list, id) ==
    \E i \in 1..Len(list) : list[i].id = id /\ IsLegacy(list[i])

(* C23: the migration of legacy entries happens on reading only: no list
   that getSearchHistory returns holds an entry of the legacy shape, and a
   stored legacy entry keeps its legacy shape in every step that keeps it,
   except in the write of a saveSearch; getSearchHistory, getSearchStats
   and deleteSearchItem do not store the migrated form. *)
C23_MigrationOnReadOnly ==
    [][/\ lastGet'.valid => ~HasLegacy(lastGet'.list)
       /\ \A id \in Ids(hist) \cap Ids(hist') :
             (StoredLegacy(hist, id) /\ ~StoredLegacy(hist', id)) =>
                 \E t \in Tasks : /\ htask[t].pc = "saveWrite"
                                  /\ htask'[t].pc = "idle"]_vars

----------------------------------------------------------------------------
(* Properties of the manual add *)

(* C24: in the manual add, the back-reference attached to the log entry
   that the flow added is the id of the history entry that the flow's own
   saveSearch created, also when that save failed silently. *)
C24_AttachedIdIsOwnHistoryId ==
    (screen.valid /\ screen.path = "manualAdd") =>
        \A i \in 1..Len(log) :
            (Number(log[i].id) = screen.entryId
             /\ log[i].nutritionDataId # EmptyId) =>
                /\ log[i].nutritionDataId = screen.historyId
                /\ screen.save = "ok"

----------------------------------------------------------------------------
(* Properties of the writes of the food log *)

(* The positions of the list whose entry does not have the id *)
Others(list, id) == {i \in 1..Len(list) : list[i].id # id}

(* The second list is the first without its entries with the id: the other
   entries, as they were and in their order *)
RemovedOnly(before, after, id) ==
    /\ Len(after) = Cardinality(Others(before, id))
    /\ \A i \in Others(before, id) :
          after[Cardinality({j \in Others(before, id) : j <= i})] = before[i]

(* The second list is the first with the updates merged into its entries
   with the id *)
MergedOnly(before, after, id, updates) ==
    /\ Len(after) = Len(before)
    /\ \A i \in 1..Len(before) :
          IF before[i].id # id THEN after[i] = before[i]
          ELSE /\ DOMAIN after[i] = DOMAIN before[i] \cup DOMAIN updates
               /\ \A k \in DOMAIN after[i] :
                     after[i][k] = IF k \in DOMAIN updates THEN updates[k]
                                   ELSE before[i][k]

(* The write of a call that read the list as it still is, without a storage
   failure, lands *)
LandsAlone(t, pc) ==
    /\ ltask[t].pc = pc
    /\ ltask'[t].pc = "idle"
    /\ ltask[t].readOk
    /\ ltask[t].seen = log
    /\ ~lcall'.valid

(* C25: a deleteFoodEntry that ran without a storage failure and with no
   other write in between removes the entry with the id and nothing else;
   such an updateFoodEntry merges the updates into the entry with the id
   and changes nothing else; the other entries keep their values and their
   order, and an id that is not in the list leaves the list as it was. *)
C25_DeleteAndUpdateTouchOnlyTheId ==
    [][\A t \in Tasks :
         /\ LandsAlone(t, "deleteWrite") =>
               RemovedOnly(log, log', ltask[t].id)
         /\ LandsAlone(t, "updateWrite") =>
               /\ MergedOnly(log, log', ltask[t].id, ltask[t].updates)
               /\ ltask[t].id \notin Ids(log) => log' = log]_vars

(* Of the two stored entries the first was deleted and the second was
   updated, and no storage call failed *)
C25_Witness ==
    /\ \A t \in Tasks : ltask[t].pc = "idle"
    /\ ~lcall.valid
    /\ opsLeft = MaxLogOps - 2
    /\ Len(log) = 1
    /\ log[1].id = 2
    /\ log[1].nutritionDataId = Number(1)
    /\ log[1].foodName = "Broth"

(* The entry is what createEntryFromSearchHistory is to build from the item
   for the date *)
BuiltFrom(e, item, date) ==
    /\ e.nutritionDataId = <<item.id>>
    /\ e.date = date
    /\ e.foodName = item.foodName
    /\ e.weight = item.weight
    /\ e.calories = <<item.calories>>
    /\ e.potassium = item.nutritionData.minerals["potassium"]
    /\ e.phosphorus = item.nutritionData.minerals["phosphorus"]
    /\ e.sodium = item.nutritionData.minerals["sodium"]

(* C26: addFoodEntry appends: when its write lands on the list it read, the
   new entry is the last one and the earlier entries keep their places;
   createEntryFromSearchHistory returns the entry it added, with the item's
   id as back-reference, the date and the item's name, weight, calories,
   potassium, phosphorus and sodium, also when another addFoodEntry or
   deleteFoodEntry runs beside it. *)
C26_AddAppendsAndCreateReturnsIt ==
    [][/\ \A t \in Tasks :
             (LandsAlone(t, "addWrite") \/ LandsAlone(t, "createWrite")) =>
                 /\ Len(log') = Len(log) + 1
                 /\ log'[Len(log')].id = ltask[t].id
                 /\ SubSeq(log', 1, Len(log)) = log
       /\ (made'.valid /\ made' # made /\ ~made'.threw /\ made'.readsOk) =>
             /\ made'.returned # Undefined
             /\ made'.returned[1].id = made'.id
             /\ BuiltFrom(made'.returned[1], made'.item, made'.date)]_vars

----------------------------------------------------------------------------
(* What a write takes out of the persisted list *)

(* The ids that are in the first list and not in the second *)
Removed(before, after) == Ids(before) \ Ids(after)

(* The ids that one more entry pushes past the cap *)
Evicted(existing) == Ids(existing) \ Ids(Take(existing, HISTORY_CAP - 1))

(* The write of a call of the history lands on the list the call read *)
HistoryWriteLands(t, pc) ==
    /\ htask[t].pc = pc
    /\ htask'[t].pc = "idle"
    /\ htask[t].seen = hist

(* The write of a call of the log lands on the list the call read *)
LogWriteLands(t, pc) ==
    /\ ltask[t].pc = pc
    /\ ltask'[t].pc = "idle"
    /\ ltask[t].seen = log

(* C27: no write removes entries it does not target, whether its read of
   the list succeeded or failed: saveSearch removes at most the entries the
   cap evicts, deleteSearchItem and deleteFoodEntry at most the entry with
   the id, addFoodEntry and updateFoodEntry nothing. *)
C27_WritesRemoveOnlyTheirTarget ==
    [][\A t \in Tasks :
         /\ HistoryWriteLands(t, "saveWrite") =>
               Removed(hist, hist') \subseteq Evicted(hist)
         /\ HistoryWriteLands(t, "deleteWrite") =>
               Removed(hist, hist') \subseteq {htask[t].id}
         /\ LogWriteLands(t, "addWrite") => Removed(log, log') = {}
         /\ LogWriteLands(t, "deleteWrite") =>
               Removed(log, log') \subseteq {ltask[t].id}
         /\ LogWriteLands(t, "updateWrite") => Removed(log, log') = {}]_vars

----------------------------------------------------------------------------
(* Properties of the back-references *)

(* The log entries whose back-reference names no stored history entry *)
Dangling ==
    {i \in 1..Len(log) :
        /\ NutritionDataId(log[i]) # EmptyId
        /\ \A j \in 1..Len(hist) :
              Number(hist[j].id) # NutritionDataId(log[i])}

(* C28: every log entry with a non-empty back-reference refers to an entry
   the history holds, and getFullNutritionData that read the history gives
   a record for such an entry, never null. *)
C28_BackReferencesResolve ==
    /\ Dangling = {}
    /\ (join.valid /\ join.readOk /\ NutritionDataId(join.entry) # EmptyId) =>
           join.result # Null

----------------------------------------------------------------------------
(* Properties of the deletions *)

(* C29: deletion is durable: an entry that a completed deleteSearchItem or
   clearAllHistory (deleteFoodEntry or clearAllFoodLog) removed is not in
   the persisted list in any later state, also when another write of the
   store had read the list before the deletion and wrote after it. *)
C29_DeletedStaysDeleted ==
    /\ Ids(hist) \cap gone.history = {}
    /\ Ids(log) \cap gone.log = {}

----------------------------------------------------------------------------
(* The intake of the gateway's context beside the daily buckets *)

(* The buckets that getDailyFoodLogs makes of the list the context read,
   and those of them for the context's date *)
BucketsOfContext == GetDailyFoodLogs(ctx.of)

TodaysBuckets ==
    {b \in 1..Len(BucketsOfContext) : BucketsOfContext[b].date = ctx.today}

(* The four nutrients of the totals are those of the intake *)
SameNutrients(intake, totals) ==
    \A k \in DOMAIN intake : intake[k] = totals[k]

(* C30: the currentIntake of a context that read the log equals, nutrient
   by nutrient, the totalNutrients of the bucket of getDailyFoodLogs for
   the context's date string, and it is all zeros exactly when there is no
   such bucket or the bucket's four totals are zero. *)
C30_IntakeIsTodaysBucket ==
    (ctx.valid /\ ctx.readOk) =>
        /\ Cardinality(TodaysBuckets) <= 1
        /\ \A b \in TodaysBuckets :
              SameNutrients(ctx.currentIntake,
                            BucketsOfContext[b].totalNutrients)
        /\ (ctx.currentIntake = ZeroIntake) <=>
              \A b \in TodaysBuckets :
                  SameNutrients(ZeroIntake,
                                BucketsOfContext[b].totalNutrients)

(* The context read a log with another day's entries and two entries for
   its own date, one of them without calories *)
C30_Witness ==
    /\ ctx.valid
    /\ ctx.readOk
    /\ Len(BucketsOfContext) >= 2
    /\ \E b \in TodaysBuckets :
          /\ Len(BucketsOfContext[b].entries) >= 2
          /\ \E i \in 1..Len(BucketsOfContext[b].entries) :
                BucketsOfContext[b].entries[i].calories = Undefined
    /\ ctx.currentIntake # ZeroIntake

====
